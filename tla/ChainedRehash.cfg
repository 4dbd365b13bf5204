\* The chained hash table loses entries when it resizes.
CONSTANTS
  t1 = t1
  t2 = t2
  t3 = t3
  t4 = t4
  a1 = a1
  a2 = a2
  a3 = a3
  Null = Null
  None = None
  Procs = {t1, t2}
  Hash <- FilterHash
  Values <- FilterValues
  ByteBits = 2
  StripeSize = 1
  StripeCount = 3
  Ops = {"add", "contains", "stats"}
  MaxCalls <- FilterCalls
  Users <- StackUsers
  Nodes <- StackNodes
  MaxOps <- StackOps
SPECIFICATION StructuresSpec
PROPERTIES
  AllRehashed
CHECK_DEADLOCK FALSE
