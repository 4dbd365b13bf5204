\* optimization_on = 0: the scheme of the unmodified kernel, in every environment.
CONSTANTS
  Threads = {t1, t2, t3, t4}
  InitThreads = {t1, t2, t3}
  Leader = t1
  NoTask = NoTask
  OptOn = FALSE
  Tracked = TRUE
  ParentIgnores = FALSE
  Env = {"exec", "clone", "sys_exit", "exit_group", "kill"}
  MaxExecs = 2
  Kernels = {"exec"}
  a1 = a1
  a2 = a2
  a3 = a3
  m1 = m1
  m2 = m2
  b1 = b1
  r1 = r1
  Spaces <- TwoMms
  Owners = {a1, a2, a3, b1}
  Readers = {r1}
  SpaceOf <- AsyncMmOf
  Starting <- StartingTasks
  Tasks <- StartingTasks
  Mms <- TwoMms
  MmOf <- DeferredMmOf
  MaxPending = 1
  Latencies <- TwoLatencies
  MaxResets = 1
SPECIFICATION KernelSpec
INVARIANTS
  TypeOK
  OriginalInv
PROPERTIES
  WinnerAlone
  ImplementsExecAtomic
  ExecReturns
  ExitCompletes
CHECK_DEADLOCK FALSE
