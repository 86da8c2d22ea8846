SPECIFICATION Spec
CONSTANTS
    VMs = {"vm"}
    MACs = {"m1", "m2"}
    IPs = {"i1", "i2"}
    Packets <- MCPackets
    StaticEntries <- MCStaticEntries
    Configs <- MCConfigs
    MaxChanges = 2
    MaxFailures = 1
    Streams = {1, 2}
    Analyzers = {"tls", "fet"}
    Values = {"bad", "ours"}
    None = None
    MaxCrossings = 1
CHECK_DEADLOCK FALSE
INVARIANTS
    LookupsExact
    RulesHold
    AllowlistedIsSafe
    AlertsExact
PROPERTIES
    InventoryFollows
    NothingStuck
