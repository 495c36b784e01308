CONSTANTS
  Domain = {0, 1}
  Mandatory = {0, 1}
  Timeout = 1
  Period = 1
  MaxLag = 1
  Reportable = {"kNominal", "kFailed"}
  Reporter = {r1}
  SameThread = FALSE
  Capacity = 0
SPECIFICATION Spec
INVARIANT MaskJustified
PROPERTIES SilenceEventuallyFails ForwardLossSettles RecoverySettles
