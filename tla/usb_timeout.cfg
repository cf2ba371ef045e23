SPECIFICATION FairSpec
CONSTANTS
  Calls = {1, 2}
  RequestIDs = {0}
  ReqPackets <- ShortRequests
  RespPackets <- ShortResponses
  ActionOf <- SameAction
  MaxPackets = 2
  MaxConcurrent = 1
  MayUnplug = FALSE
  CloseResets = TRUE
  Faults = {"empty"}
PROPERTIES TimeoutEndsRequest
CHECK_DEADLOCK FALSE
