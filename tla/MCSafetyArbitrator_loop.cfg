CONSTANTS
  Domain = {0, 1, 7}
  Mandatory = {0, 1}
  Timeout = 1
  Period = 1
  MaxLag = 1
  Reportable = {"kNominal", "kDegraded", "kFailed"}
  Reporter = {r1}
  SameThread = TRUE
  Capacity = 1
SPECIFICATION Spec
INVARIANTS MonTypeOK HealthMatchesCount SilenceDetected MaskIsCurrent SilenceLimitsSpeed
