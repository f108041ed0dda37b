SPECIFICATION Spec
CONSTANTS
  NumCrates = 1
  MAX_VIEW_CON = 0
  NumFds = 3
  MaxYields = 1
  Prompts = FALSE
  Refusals <- MCNone
PROPERTIES WorkersEnd
