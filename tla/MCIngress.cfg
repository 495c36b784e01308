CONSTANTS
  PollLimit = 2
  MaxPending = 2
  Demand <- Demands
  Policy <- Policies
  kAnyMethod = 65535
  MaxPolicies = 2
  Role = {1}
  MaxRoles = 1
  AuditSlots = 3
SPECIFICATION Spec
INVARIANTS IngressTypeOK OkMeansAnswered PassedLegitimately AuditExact
PROPERTY CallReturns
