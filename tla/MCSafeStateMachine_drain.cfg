CONSTANTS
  FaultPattern <- MCFaultPattern
  LogSlots = 2
  Capacity = 2
  MaxListeners = 1
  BufferSizes = {1, 3}
  MaxTransitions = 4
SPECIFICATION Spec
INVARIANT DrainReturnsTransitions
