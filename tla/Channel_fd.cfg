SPECIFICATION ChannelSpec
CONSTANTS
  a1 = a1
  b1 = b1
  b2 = b2
  none = none
  TasksA = {a1}
  TasksB = {b1}
  Cpus = {a1, b1, b2}
  CpuOf <- OwnCpu
  Noop = none
  MaxBuffered = 1
  Ops <- FdsOnly
  Calls <- Twice
  UnThreads = {a1, b1}
  UnSockets = {1, 2}
  UnPaths = {"p"}
  UnBacklog = 1
  UnPairs = 2
  UsTasks <- StreamTasks
  SOCK_BUF_CAPACITY = 3
  MAX_PENDING_FDS = 1
  UsChunk = {2}
  UsOps <- StreamOps
  UsRounds <- StreamCalls
  LINE_BUF_SIZE = 4
  READY_CAPACITY = 7
  TyVts = {0, 1}
  TyReaders <- VtReaders
  TyCallers <- SystemCalls
  TyCases <- Typing
  SCANCODE_BUF_SIZE = 8
  PtMasters = {"m1", "m2"}
  PtSlaves = {"s1"}
  MAX_PTYS = 1
  PTY_BUF_SIZE = 4
  PtStage = 2
  PtPairs = 2
  PtInput <- EmulatorWrites
  PtOutput <- ShellWrites
  PtCalls <- TerminalCalls
CHECK_DEADLOCK FALSE
INVARIANT FdDelivered
