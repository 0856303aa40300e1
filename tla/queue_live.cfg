\* Lost connections, failing connects and callbacks that may never end.
CONSTANTS
    Threads = {t1, t2}
    Owner = Owner
    Messages = {m1}
    None = None
    MaxConnections = 2
    MaxTags = 1
    MaxFaults = 1
    MaxDeletions = 0
    MaxStrays = 1
    SlowCallbacks = TRUE
SPECIFICATION FairQueueSpec
INVARIANTS
    ActiveHasThread
PROPERTIES
    OwnerReturns
