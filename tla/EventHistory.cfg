\* Two processes append and drain one outbox; a fault and a crash.
SPECIFICATION FairSpec
CONSTANTS
    e1 = e1
    e2 = e2
    api = api
    worker = worker
    None = None
    Event = {e1, e2}
    Proc = {api, worker}
    Api = api
    Worker = worker
    Backends <- MCBackends
    MaxBatch = 2
    MaxRead = 1
    MaxFaults = 1
    MaxCrashes = 1
INVARIANTS
    NothingLost
    SentIsDurable
    InOrder
    FlushedIsComplete
    StreamSound
PROPERTIES
    OutboxDrains
