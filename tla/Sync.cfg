SPECIFICATION SyncSpec
CONSTANTS
  t1 = t1
  t2 = t2
  t3 = t3
  Tasks = {t1, t2, t3}
  Cpus = {t1, t2, t3}
  CpuOf <- OwnCpu
  MaxWaiters = 2
  Spinners = {t3}
  Droppable = {t1}
  WeakFails = TRUE
  Rounds = 2
  SemTasks = {t1, t2, t3}
  Permits = 1
  SemRounds = 2
  RwTasks = {t1, t2, t3}
  WRITE_LOCKED = 4
  RwRounds = 2
  SqReaders = {"r1"}
  SqWriters = {"w1", "w2"}
  SeqBits = 3
  SqWrites = 3
  SqReads = 2
  CvWaiters = {"w1", "w2", "s"}
  CvSpinners = {"s"}
  CvNotifiers = {"n1", "n2", "n3"}
  CvMaxWaiters = 2
  CvNobody = "nobody"
  LzTasks = {t1, t2, t3}
  LzRounds = 2
  IqCpus = {1, 2}
  IqLocks = {2, 3}
  PlainLocks = {1}
  IqRounds = 2
  LdCpus = {1, 2}
  PlainKeys = {1, 2}
  IrqKeys = {3}
  MAX_CLASSES = 3
  MAX_HELD = 2
  LdRounds <- LdContexts
  Arrivals = {"normal", "background"}
  Limit = 6
  MaxLen = 4
  MaxBypass = 12
CHECK_DEADLOCK FALSE
INVARIANTS
  TypeOK MutualExclusion NoForgottenWaiter Excludes SleepersReached ReadsAreSnapshots
  InterruptsSafe InversionsReported BypassBounded
