SPECIFICATION Spec
CONSTANTS
  k1 = k1
  k2 = k2
  s1 = s1
  s2 = s2
  s3 = s3
  s4 = s4
  f1 = f1
  f2 = f2
  f3 = f3
  m1 = m1
  NoConn = NoConn
  NoModule = NoModule
  NoTarget = NoTarget
  NoFile = NoFile
  Conns = {1, 2, 3}
  Modules = {}
  Targets <- PdefTargets
  Hint <- NoHints
  PdefFiles = {f1, f2, f3}
  InitialEndian <- Declared
  NumWorkers = 1
  MaxConcurrent = 2
  Cooldown = 2
  FilterUp = TRUE
  CleanupUp = TRUE
  MaxTime = 0
  MaxAlerts = 0
  FirstId = 1
INVARIANT HeldOnce
PROPERTIES WritebackExclusive ExplicitEndianKept EveryTaskEndsOrIsLost
CHECK_DEADLOCK FALSE
