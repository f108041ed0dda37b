SPECIFICATION SafeSSpec
CONSTANTS
  NumCrates = 1
  MaxThreads = 3
  Callers = {main, ft}
  Main = main
  Ft = ft
  Threads = {t1, t2, t3}
  NoThread = NoThread
  MaxYields = 0
  Requests <- MCFinalTestRequests
  SessionReq <- MCFinalTest
  Script <- MCFinalTestScript
  Ecal = FALSE
  Faults = {}
SYMMETRY MCSessionSymmetry
INVARIANTS CommandsExclusive
