\* The scenario of test_nonmain_exec: a thread other than the leader calls exec().
CONSTANTS
  Threads = {t1, t2, t3}
  InitThreads = {t1, t2, t3}
  Leader = t1
  NoTask = NoTask
  OptOn = TRUE
  Tracked = TRUE
  ParentIgnores = FALSE
  Env = {"exec"}
  MaxExecs = 1
SPECIFICATION Spec
INVARIANTS
  NoNullDeref
CHECK_DEADLOCK FALSE
