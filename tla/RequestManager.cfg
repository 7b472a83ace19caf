SPECIFICATION FairSpec
CONSTANTS
  MAX_TOTAL_REQ = 2
  MAX_PER_NODE_REQ = 2
  MAX_PER_EP_REQ = 1
  zigbeeRequestTimeout = 2
  TransIds = 4
  Kinds <- const_Kinds
  Modes = {1}
  MaxRequests = 3
  MaxAnswers = 2
  MaxTxFull = 1
  MaxRestarts = 1
INVARIANTS
  TypeOK
  WithinLimits
  NoCallbackLostOrDoubled
PROPERTIES
  AnswersTheRightRequest
  EveryRequestEnds
CHECK_DEADLOCK FALSE
