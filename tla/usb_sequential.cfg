SPECIFICATION Spec
CONSTANTS
  Calls = {1, 2, 3, 4}
  RequestIDs = {0}
  ReqPackets <- FourRequests
  RespPackets <- FourResponses
  ActionOf <- FourActions
  MaxPackets = 2
  MaxConcurrent = 1
  MayUnplug = TRUE
  CloseResets = TRUE
  Faults = {}
INVARIANTS ClosedAtRest SequentialCallsSucceed NothingLeftBehind
PROPERTIES SettledOnce
CHECK_DEADLOCK FALSE
