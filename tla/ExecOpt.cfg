\* optimization_on = 1, tracked process whose threads exit only when killed; both
\* variants of a teardown that comes later.
CONSTANTS
  Threads = {t1, t2, t3, t4}
  InitThreads = {t1, t2, t3}
  Leader = t1
  NoTask = NoTask
  OptOn = TRUE
  Tracked = TRUE
  ParentIgnores = TRUE
  Env = {"exec", "clone", "exit_group"}
  MaxExecs = 2
  Kernels = {"exec", "async", "deferred"}
  a1 = a1
  a2 = a2
  a3 = a3
  m1 = m1
  m2 = m2
  b1 = b1
  r1 = r1
  Spaces <- TwoMms
  Owners = {a1, a2, a3, b1}
  Readers = {r1}
  SpaceOf <- AsyncMmOf
  Starting <- StartingTasks
  Tasks <- StartingTasks
  Mms <- TwoMms
  MmOf <- DeferredMmOf
  MaxPending = 1
  Latencies <- TwoLatencies
  MaxResets = 1
SPECIFICATION KernelSpec
INVARIANTS
  NotifyCountExact
  ExecSound
  NoUseAfterTeardown
  PendingCoversWork
  TornDownAlone
  StatsExact
PROPERTIES
  ExecReturns
  GroupExitCompletes
  SpacesTornDown
CHECK_DEADLOCK FALSE
