\* The signals of a process group; both race detectors, where the main thread
\* creates two threads.
CONSTANTS
  Null = Null
  t1 = t1
  t2 = t2
  t3 = t3
  g1 = g1
  g2 = g2
  NumThreads = 3
  Locks = {l1}
  Creators = {0}
  Vars = {x}
  MaxAccesses = 3
  MaxTime = 3
SPECIFICATION PartsSpec
INVARIANTS
  StopExact
  HasTaker
  SignalsReach
  ReportsTrue
  RacesReported
CHECK_DEADLOCK FALSE
