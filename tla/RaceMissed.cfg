\* A race of later time frames that is not found.
CONSTANTS
  NumThreads = 3
  Locks = {l1}
  Creators = {0}
  Vars = {x}
  MaxAccesses = 3
  MaxTime = 3
SPECIFICATION Spec
INVARIANTS
  NoneFoundNoneLater
CHECK_DEADLOCK FALSE
