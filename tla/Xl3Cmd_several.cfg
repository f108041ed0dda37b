SPECIFICATION Spec
CONSTANTS
  NumCrates = 2
  Mine <- MCBoth
  Types <- MCTypes
  NoReply <- MCSilent
  Modulus = 3
  Prompts = FALSE
  NumFds = 3
  MaxRequests = 3
  MaxNoise = 1
  MaxFaults = 0
CHECK_DEADLOCK FALSE
PROPERTIES TimesOutOnlyUnanswered
