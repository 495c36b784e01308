CONSTANTS
  Source = {s0, s1}
  Tracked = s0
  Buckets = 2
  Burst = 3
  Rate = 1
  ClampTicks = 3
  EvictAfter = 1
  Period = 1
  RefillLag = 1
  EvictLag = 0
  kInvalidSourceId = none
SPECIFICATION Spec
INVARIANTS LimiterTypeOK OneBucketPerSource RateLimited ConformingAdmitted
