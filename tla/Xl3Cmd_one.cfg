SPECIFICATION Spec
CONSTANTS
  NumCrates = 2
  Mine <- MCOne
  Types <- MCTypes
  NoReply <- MCSilent
  Modulus = 3
  Prompts = TRUE
  NumFds = 3
  MaxRequests = 4
  MaxNoise = 1
  MaxFaults = 2
CHECK_DEADLOCK FALSE
INVARIANTS TypeOK AnswerIsMine ReplyInv
PROPERTIES TimesOutOnlyUnanswered RequestEnds
