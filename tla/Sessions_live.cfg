SPECIFICATION SSpec
CONSTANTS
  NumCrates = 1
  MaxThreads = 3
  Callers = {main, ft}
  Main = main
  Ft = ft
  Threads = {t1, t2, t3}
  NoThread = NoThread
  MaxYields = 0
  Requests <- MCLiveRequests
  SessionReq <- MCFinalTest
  Script <- MCLiveScript
  Ecal = FALSE
  Faults = {}
INVARIANTS SettledExclusive
PROPERTIES SessionEnds
