SPECIFICATION Spec
CONSTANTS
  MAX_TOTAL_REQ = 2
  MAX_PER_NODE_REQ = 1
  MAX_PER_EP_REQ = 1
  zigbeeRequestTimeout = 2
  TransIds = 4
  Kinds <- const_TtlKinds
  Modes = {0}
  MaxRequests = 2
  MaxAnswers = 1
  MaxTxFull = 0
  MaxRestarts = 0
PROPERTIES
  TtlStartsAtApi
CHECK_DEADLOCK FALSE
