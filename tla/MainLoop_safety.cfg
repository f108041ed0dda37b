SPECIFICATION SafeSpec
CONSTANTS
  NumCrates = 1
  MAX_VIEW_CON = 1
  NumFds = 2
  MaxYields = 1
  Prompts = TRUE
  Refusals <- MCRefusals
CHECK_DEADLOCK FALSE
INVARIANTS TypeOK SelectsOpenSockets DescriptorsDistinct LoopInv
PROPERTIES ReadsNoBusyCrate
