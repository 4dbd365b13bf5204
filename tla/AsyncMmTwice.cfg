\* One task exits: the worker can overtake its mmput().
CONSTANTS
  m1 = m1
  a1 = a1
  Spaces <- OneMm
  Owners = {a1}
  Readers = {}
  SpaceOf <- AloneMmOf
  Starting = {a1}
SPECIFICATION AsyncSpec
INVARIANTS
  TornDownOnce
CHECK_DEADLOCK FALSE
