\* Every plan of three steps, with an operator, a fault and a restart.
CONSTANTS
  N = 3
  MaxOperated = 2
  MaxFaults = 1
SPECIFICATION FairSpec
INVARIANTS
  TypeOK
  OrderSound
  FinishedIsComplete
PROPERTIES
  ImplementsContract
  RunsEnd
CHECK_DEADLOCK FALSE
