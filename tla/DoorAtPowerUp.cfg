SPECIFICATION Spec
CONSTANTS
  Ratio = 2
  PulseLen = 2
  LedOnTime = 2
  LedOffTime = 1
  MaxOrders = 0
INVARIANTS IdleMeansReleased
