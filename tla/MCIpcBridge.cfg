CONSTANTS
  Event = {e1, e2}
  LargeEvent = {big}
  NoEvent = NoEvent
  RingSlots = 4
  CounterMod = 8
SPECIFICATION Spec
INVARIANTS TypeOK NoE2eViolation RingInv
PROPERTIES WaitingSlotsStable ImplementsChannel
