SPECIFICATION FairSpec
CONSTANTS
  r1 = r1
  r2 = r2
  w1 = w1
  x = x
  y = y
  none = none
  Noop = none
  Readers = {r1, r2}
  Writers = {w1}
  Cpus = {x, y}
  Home <- Apart
  Stealable = {r1}
  Capacity = 2
  Byte = {0, 1, 2}
  Zero = 0
  Chunks <- OneOrTwo
  MaxRead = 2
  Calls <- ReadOnce
CHECK_DEADLOCK FALSE
PROPERTIES IsByteStream HangupServed
