SPECIFICATION Spec
CONSTANTS
  MAX_DATA_SIZE = 2
  UINT16 = 4
  Ascii = {"a"}
  Commands = {1}
  Statuses = {0, 3}
  MaxText = 6
  MaxArray = 5
INVARIANTS RequestIntact ResponseDecoded OrderDoesNotShow
CHECK_DEADLOCK FALSE
