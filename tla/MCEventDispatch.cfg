CONSTANTS
  Topic = {t1, t2}
  Payload = {p1, p2}
  NoEvent = NoEvent
  RingSlots = 3
  MaxSubscribers = 2
SPECIFICATION Spec
INVARIANT DispatchTypeOK
PROPERTIES HandlerEventStable FanOutComplete ImplementsFifo
