CONSTANTS
  Key = {k1, k2, k3}
  NoKey = NoKey
  MaxSubs = 2
  Interval = 1
  Dead = 2
  Period = 1
  MaxLag = 1
  Beater = {b1}
SYMMETRY Subscribers
SPECIFICATION Spec
INVARIANTS EntryTypeOK EvictedOnlyWhenDead MonitoredExactly SilentEvicted
