CONSTANTS
  MaxPieces = 2
  MaxPushes = 1
SPECIFICATION FairStreamSpec
INVARIANTS AnswerDelivered 
PROPERTIES ReplyEnds
CHECK_DEADLOCK FALSE
