SPECIFICATION SafeSpec
CONSTANTS
  NumCrates = 1
  MAX_VIEW_CON = 1
  NumFds = 4
  MaxYields = 0
  Prompts = FALSE
  Refusals <- MCFull
CHECK_DEADLOCK FALSE
INVARIANTS NoSelfDeadlock
