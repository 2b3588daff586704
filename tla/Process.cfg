SPECIFICATION Spec
CONSTANTS
    MaxPid = 3
    Signals = {2, 9, 17}
    Codes = {0}
    Handlings <- Caught
    Masks <- SomeMasks
    Workloads <- Mixed
INVARIANTS TreeConsistent ReapedByParent NoLostExit
PROPERTIES KillIsFinal WaitServed
CHECK_DEADLOCK FALSE
