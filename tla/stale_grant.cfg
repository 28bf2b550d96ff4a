\* A runner is unloaded between needsReload and useLoadedRunner.
SPECIFICATION Spec
CONSTANTS
  r1 = r1  r2 = r2  r3 = r3
  Requests <- R2
  NoRunner = NoRunner
  Models = {1, 2}
  ModelOf <- ModelOfOne
  CfgOf <- SameCfg
  KeepAliveOf <- KeepAliveUnset
  DefaultKeepAlive = 1
  FullFitModels = {}
  MediaModels = {}
  AutoCtx = {}
  Pinned = {}
  Opencoti = {}
  GpusOf <- OneGpu
  Kinds = {}
  KindsOf <- NoKinds
  KindLimit <- NoLimit
  MaxRunners = 1
  AutoRunners = 3
  MaxQueue = 3
  RefCounts = 6
  Timeouts = FALSE
  Cancellable = {}
  MaxStops = 0
  MaxCrashes = 0
PROPERTIES
  GrantsUsable
CHECK_DEADLOCK FALSE
