SPECIFICATION Spec
CONSTANTS
  p = p
  q = q
  Exit = Exit
  Producers = {p, q}
  MaxCommands = 5
  Capacity = 2
  BatchSize = 2
INVARIANTS TypeOK OrderKept NoLostWakeup
PROPERTIES DeliversInOrder StopReturns
