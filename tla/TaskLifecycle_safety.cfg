CONSTANTS
    Tasks = {1}
    Poller = poller
    Fetchers = {f1, f2}
    Workers = {w1}
    OnMaster = {f1}
    Realtime = {1}
    Ali = {1}
    Archivable = {1}
    Unloadable = {}
    Legacy = {}
    Subscribed = {}
    Revocable = {}
    MemoryCacheEnabled = TRUE
    Pre <- MCPre
    Actual <- MCBelow
    QueryLimit = 1
    SweepLimit = 1
    QueueSize = 1
    MaxFaults = 2
SPECIFICATION FairSpec
INVARIANTS TypeOK BilledAtMostOnce BilledExactly ArchivedBeforeSuccess OneArchiveJob CalledBackAtMostOnce
PROPERTIES ImplementsTaskLedger FinalIsSticky EveryTaskEnds
