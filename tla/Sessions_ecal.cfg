SPECIFICATION SafeSSpec
CONSTANTS
  NumCrates = 1
  MaxThreads = 3
  Callers = {main, ft}
  Main = main
  Ft = ft
  Threads = {t1, t2, t3}
  NoThread = NoThread
  MaxYields = 0
  Requests <- MCEcalRequests
  SessionReq <- MCEcal
  Script <- MCEcalShortScript
  Ecal = TRUE
  Faults = {1}
SYMMETRY MCSessionSymmetry
INVARIANTS STypeOK OneCallerAtATime SessionInv
PROPERTIES FreesOnlyDead
