SPECIFICATION FairSpec
CONSTANTS
  Calls = {1, 2}
  RequestIDs = {0}
  ReqPackets <- ShortRequests
  RespPackets <- ShortResponses
  ActionOf <- SameAction
  MaxPackets = 2
  MaxConcurrent = 2
  MayUnplug = TRUE
  CloseResets = TRUE
  Faults = {}
PROPERTIES EveryCallReturns
CHECK_DEADLOCK FALSE
