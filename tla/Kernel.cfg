SPECIFICATION KernelSpec
CONSTANTS
    main = main
    worker = worker
    none = none
    Nobody = none
    Threads = {main, worker}
    Clones = {worker}
    Cpus <- Both
    Home <- FirstCpu
    Ops <- AllOps
    MaxVersion = 1
    PageSize = 2
    AddressWord = 4096
    Region <- SmallRegion
    Lengths = {0, 1, 2, 3, 5}
INVARIANTS RegistersKept FpuKept RangesDisjoint OwnedOnce AnswersRight
PROPERTIES EventsServed
CHECK_DEADLOCK FALSE
