SPECIFICATION FairSpec
CONSTANTS
  a = a
  b = b
  c = c
  x = x
  y = y
  Tasks = {a, b, c}
  Cpus = {x, y}
  PriorityOf <- Mixed
  Boot = x
  First = b
  NoTask = NoTask
  Processes = {b}
  Limit = 1
  MaxQueued = 2
  MaxFires = 2
INVARIANTS TypeOK OneOwner NoTaskLost NoSleepOnWork WakeReaches CriticalPinned
CHECK_DEADLOCK FALSE
PROPERTY WokenIsPolled
