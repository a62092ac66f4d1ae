SPECIFICATION FairSpec
CONSTANTS
  Ratio = 2
  PulseLen = 3
  LedOnTime = 2
  LedOffTime = 1
  MaxOrders = 2
INVARIANTS TypeOK NeverBothCircuits CircuitsFollowState
PROPERTIES ButtonsAsOrdered PulseLongEnough EveryTickHandled PulseEnds LedBlinks
