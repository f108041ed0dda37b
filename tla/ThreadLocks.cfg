SPECIFICATION Spec
CONSTANTS
  NumCrates = 1
  MaxThreads = 2
  Callers = {main}
  Main = main
  Threads = {t1, t2}
  NoThread = NoThread
  MaxYields = 1
  Requests <- MCRequestsSmall
INVARIANTS
  TypeOK
  MutualExclusion
  LockedIffOwned
  SlotAccounting
  IInv
PROPERTIES
  FreesOnlyFinished
  LocksReleased
  SlotsRecycled
  ImplementsDeviceLocks
