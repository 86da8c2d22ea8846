\* Both live packet IOs: capture, queueing, statistics, start and close.
SPECIFICATION Spec
CONSTANTS
    connA = connA
    connB = connB
    connP = connP
    NumBlocks = 2
    Contents <- BlockContents
    StatsReaders = {"monitor", "scrape"}
    MaxRetired = 3
    MaxDrops = 1
    MaxErrors = 2
    MaxStats <- MCStats
    Conns <- MCConns
    Protected <- MCProtected
    FamilyOf <- MCFamilyOf
    QueueLength = 1
    MaxArrivals = 2
    MaxFailures = 1
CHECK_DEADLOCK FALSE
INVARIANTS
    ReadsOwnBlocks
    DeliveredInOrder
    OneError
    NothingLeft
    CountersComplete
    ProtectedBypass
PROPERTIES
    KernelAgrees
    GivenBack
    ReaderStops
