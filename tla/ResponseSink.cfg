\* One machine, restarts and releases: applied flows hold, queued events are decided.
SPECIFICATION FairSpec
CONSTANTS
    m1 = m1
    NoMac = NoMac
    Macs <- MCMacs
    QueueSize = 2
    Cooldown = 2
    HardTimeout = 3
    Second = 2
    CommandTimeout = 1
    DeleteOnStart = TRUE
    MaxTime = 5
    MaxRestarts = 1
INVARIANTS
    AppliedHolds
PROPERTIES
    SwallowedIsBlocked
    QueuedIsDecided
    CloseReturns
