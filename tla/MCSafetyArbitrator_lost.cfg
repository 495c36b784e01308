CONSTANTS
  Domain = {0, 1}
  Mandatory = {0, 1}
  Timeout = 1
  Period = 1
  MaxLag = 0
  Reportable = {"kNominal", "kFailed"}
  Reporter = {r1}
  SameThread = TRUE
  Capacity = 1
SPECIFICATION Spec
PROPERTY M7Follows
