CONSTANTS
    Tasks = {1}
    Poller = poller
    Fetchers = {f1}
    Workers = {w1}
    OnMaster = {}
    Realtime = {1}
    Ali = {}
    Archivable = {}
    Unloadable = {}
    Legacy = {}
    Subscribed = {}
    Revocable = {}
    MemoryCacheEnabled = TRUE
    Pre <- MCPre
    Actual <- MCKept
    QueryLimit = 1
    SweepLimit = 1
    QueueSize = 1
    MaxFaults = 0
SPECIFICATION Spec
INVARIANT NobodyIsPaid
