SPECIFICATION Spec
CONSTANTS
  Producers = {p1, p2}
  Consumer = consumer
  NoOne = noone
  T = {a, b}
  Nothing = nothing
  capacity = 2
  MaxBlock = 2
INVARIANTS TypeOK
PROPERTIES LinearizableUntilOverrun ConsumerReturnsAlways
