CONSTANTS
    Tasks = {1, 2}
    Poller = poller
    Fetchers = {}
    Workers = {w1}
    OnMaster = {}
    Realtime = {}
    Ali = {}
    Archivable = {1, 2}
    Unloadable = {2}
    Legacy = {2}
    Subscribed = {1, 2}
    Revocable = {2}
    MemoryCacheEnabled = FALSE
    Pre <- MCPre
    Actual <- MCAbove
    QueryLimit = 1
    SweepLimit = 1
    QueueSize = 1
    MaxFaults = 1
SPECIFICATION FairSpec
INVARIANTS BilledExactly OneArchiveJob
PROPERTY EveryTaskEnds
