\* Every queued request is answered and every runner goes.
SPECIFICATION FairSpec
CONSTANTS
  r1 = r1  r2 = r2  r3 = r3
  Requests <- R3
  NoRunner = NoRunner
  Models = {1, 2}
  ModelOf <- ModelOfShare
  CfgOf <- SameCfg
  KeepAliveOf <- KeepAliveUnset
  DefaultKeepAlive = 1
  FullFitModels = {}
  MediaModels = {}
  AutoCtx = {}
  Pinned = {}
  Opencoti = {}
  GpusOf <- OneGpu
  Kinds = {}
  KindsOf <- NoKinds
  KindLimit <- NoLimit
  MaxRunners = 1
  AutoRunners = 3
  MaxQueue = 3
  RefCounts = 6
  Timeouts = FALSE
  Cancellable = {}
  MaxStops = 0
  MaxCrashes = 0
PROPERTIES
  QueuedAnswered EventuallyUnloaded
CHECK_DEADLOCK FALSE
