SPECIFICATION Spec
CONSTANTS
  r1 = r1
  r2 = r2
  w1 = w1
  x = x
  none = none
  Noop = none
  y = y
  Readers = {r1}
  Writers = {w1}
  Cpus = {x, y}
  Home <- Together
  Stealable = {}
  Capacity = 2
  Byte = {0, 1, 2}
  Zero = 0
  Chunks <- OneOrTwo
  MaxRead = 2
  Calls <- Twice
CHECK_DEADLOCK FALSE
INVARIANT NoLostWakeup
