\* Two requests share a model, a third needs its place.
SPECIFICATION Spec
CONSTANTS
  r1 = r1  r2 = r2  r3 = r3
  Requests <- R3
  NoRunner = NoRunner
  Models = {1, 2}
  ModelOf <- ModelOfShare
  CfgOf <- SameCfg
  KeepAliveOf <- KeepAliveUnset
  DefaultKeepAlive = 1
  FullFitModels = {}
  MediaModels = {}
  AutoCtx = {}
  Pinned = {}
  Opencoti = {}
  GpusOf <- OneGpu
  Kinds = {}
  KindsOf <- NoKinds
  KindLimit <- NoLimit
  MaxRunners = 1
  AutoRunners = 3
  MaxQueue = 2
  RefCounts = 6
  Timeouts = TRUE
  Cancellable = {r2}
  MaxStops = 1
  MaxCrashes = 1
INVARIANTS
  TypeOK RefCountExact HeldRunnerLoaded EnginesInMap AnsweredOnce IdleHasExpiry
CHECK_DEADLOCK FALSE
