SPECIFICATION Spec
CONSTANTS
  xl3num = 2
  num_cmds = 2
  slots = 2
  Modulus = 2
  MaxRequests = 3
  MaxNoise = 1
  MaxFaults = 1
INVARIANTS
  CollectorInv
  CTypeOK
  ResultsAreMine
  StoredIsStale
  ErrorsAreReal
  CaldComplete
PROPERTY WaitEnds
CHECK_DEADLOCK FALSE
