\* optimization_on = 1, threads that also exit on their own.
CONSTANTS
  Threads = {t1, t2, t3}
  InitThreads = {t1, t2, t3}
  Leader = t1
  NoTask = NoTask
  OptOn = TRUE
  Tracked = TRUE
  ParentIgnores = FALSE
  Env = {"exec", "sys_exit"}
  MaxExecs = 1
SPECIFICATION FairSpec
PROPERTIES
  ExecReturns
CHECK_DEADLOCK FALSE
