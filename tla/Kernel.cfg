\* The parts of the kernel.
CONSTANTS
  Null = Null
  t1 = t1
  t2 = t2
  t3 = t3
  k1 = k1
  k2 = k2
  k3 = k3
  k4 = k4
  x1 = x1
  x2 = x2
  x3 = x3
  x4 = x4
  fa = fa
  fb = fb
  fc = fc
  init = init
  sh = sh
  pa = pa
  pb = pb
  ca = ca
  cb = cb
  ch = ch
  AnyChild = AnyChild
  Threads <- Family
  Leader <- FamilyLeader
  Parent <- FamilyParent
  Pgrp <- FamilyPgrp
  InitTask = init
  Plans <- WaitPlans
  Files <- ProgramFiles
  Programs <- ExecPrograms
  FirstFile = "ld"
  Readers = {t1}
  Writable = {"sh"}
  MaxRewrites = 5
  MaxExecs = 2
  Nil = Nil
  Actors = {t1, t2}
  Pids = {x1, x2, x3, x4}
  Kids = {k1, k2, k3, k4}
  pid_max = 5
  RESERVED_PIDS = 2
  Requests <- PidRequests
  None = None
  Tasks = {t1, t2, t3}
  Ids = {1, 2, 3, 4}
  Firsts <- ForkFirsts
  Scripts <- ForkScripts
  max_threads = 3
SPECIFICATION KernelFairSpec
INVARIANTS
  TableExact
  PidsExact
  SharingSound
  FilesExact
  LoadSound
  ZombiesExact
  WaitersServed
  ArgsExact
  ImageSound
  DumpSound
PROPERTIES
  KernelCallsEnd
CHECK_DEADLOCK FALSE
