CONSTANTS
  Topic = {t1, t2, t3, t4}
  DeadlinesOffered = {0, 1, infinite}
  kDeadlineInfiniteMs = infinite
  MaxProfiles = 3
  Period = 1
  MaxLag = 1
SYMMETRY Topics
SPECIFICATION Spec
INVARIANTS QosTypeOK MissReported
PROPERTY VerdictExact
