\* Two values whose two-stripe cases lock the same stripes in opposite orders.
CONSTANTS
  Procs = {p1, p2}
  Hash <- HashCrossed
  Values <- ValuesCrossed
  ByteBits = 2
  StripeSize = 1
  StripeCount = 2
  Ops = {"add"}
  MaxCalls <- CallsCrossed
SPECIFICATION Spec
INVARIANTS
  NoDeadlock
CHECK_DEADLOCK FALSE
