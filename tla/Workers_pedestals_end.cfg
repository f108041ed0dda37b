SPECIFICATION Spec
CONSTANTS
  NumCrates = 2
  PennTeststand = FALSE
  Busy = t1
  Other = t2
  Threads = {t1, t2}
  Jobs <- MCPedestalJobs
INVARIANT EndStopsReadout
