CONSTANTS
    p1 = p1
    p2 = p2
    p3 = p3
    q1 = q1
    q2 = q2
    P = P
    Q = Q
    Threads = {p1, p2, p3, q1, q2}
    Spaces = {P, Q}
    SpaceOf <- TwoSpaces
    MaxEntries = 3
    Workloads <- Loads
SPECIFICATION Spec
INVARIANTS MutexWord NoLostUnlock OnceOnly NoMissedBroadcast
PROPERTIES WakeCounts Served
CHECK_DEADLOCK FALSE
