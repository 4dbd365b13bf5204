\* The producer-consumer programs, the halo exchange, the trace module and the
\* data structures.
CONSTANTS
  None = None
  Null = Null
  a1 = a1
  a2 = a2
  a3 = a3
  t1 = t1
  t2 = t2
  t3 = t3
  t4 = t4
  Procs = {t1, t2}
  Hash <- FilterHash
  Values <- FilterValues
  ByteBits = 2
  StripeSize = 1
  StripeCount = 3
  Ops = {"add", "contains", "stats"}
  MaxCalls <- FilterCalls
  Users <- StackUsers
  Nodes <- StackNodes
  MaxOps <- StackOps
SPECIFICATION ProgSpec
INVARIANTS
  SoundLinks
  FilterSound
  OutputExact
  ResultsExact
PROPERTIES
  ImplementsFifo
  ImplementsStack
  ChainedIsMap
  OpenIsMap
  ProgramsEnd
CHECK_DEADLOCK FALSE
