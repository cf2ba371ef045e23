SPECIFICATION Spec
CONSTANTS
  Calls = {1, 2}
  RequestIDs = {0, 1}
  ReqPackets <- ShortRequests
  RespPackets <- PairResponses
  ActionOf <- SameAction
  MaxPackets = 2
  MaxConcurrent = 1
  MayUnplug = FALSE
  CloseResets = TRUE
  Faults = {}
INVARIANTS RequestIDIdentifies
CHECK_DEADLOCK FALSE
