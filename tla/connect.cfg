SPECIFICATION Spec
CONSTANTS
  Flows = {1, 2}
  Devices = {"d1", "d2"}
  Standard = {"d1"}
  Hosts = {"web", "node"}
  Jobs <- PairJobs
  Faults = {"select", "close"}
INVARIANTS TypeOK NoDeviceOnlyAfterUnplug RestIsClosed ToldOfOwnDevice
PROPERTIES DisconnectTold
CHECK_DEADLOCK FALSE
