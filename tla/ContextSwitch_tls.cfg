SPECIFICATION ContextSpec
CONSTANTS
    main = main
    worker = worker
    none = none
    Nobody = none
    Threads = {main, worker}
    Clones = {main, worker}
    Cpus <- One
    Home <- FirstCpu
    Ops <- WaitOps
    MaxVersion = 0
    PageSize = 2
    AddressWord = 4096
    Region <- SmallRegion
    Lengths = {0, 1, 2, 3, 5}
INVARIANT TlsKept
