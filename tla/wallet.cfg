SPECIFICATION Spec
CONSTANTS
  c1 = c1  c2 = c2  c3 = c3
  Apps = {"eth", "cosmos", "tron", "avalanche", "bitcoin"}
  Calls = {c1, c2, c3}
  Seeds = {"s", "t"}
  Given = {"t"}
  MaxSwitches = 1
SYMMETRY CallSymmetry
INVARIANTS TypeOK ExportPairsAgree SignsUnderHeldFingerprint MismatchNeedsSwitch JoinedOfOneSeed
PROPERTIES FingerprintChangesByExport
CHECK_DEADLOCK FALSE
