SPECIFICATION Spec
CONSTANTS
  Calls = {1, 2}
  RequestIDs = {0, 1}
  ReqPackets <- PairRequests
  RespPackets <- PairResponses
  ActionOf <- SameAction
  MaxPackets = 2
  MaxConcurrent = 2
  MayUnplug = TRUE
  CloseResets = FALSE
  Faults = {"babble", "outStatus"}
INVARIANTS TypeOK WholeAnswer ClosedAtRest OutlivesOnlyTimeout RaceIsTimed
PROPERTIES ImplementsPromise
CHECK_DEADLOCK FALSE
