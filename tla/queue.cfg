\* No lost connection, no callback longer than the join.
CONSTANTS
    Threads = {t1, t2}
    Owner = Owner
    Messages = {m1, m2}
    None = None
    MaxConnections = 2
    MaxTags = 2
    MaxFaults = 0
    MaxDeletions = 1
    MaxStrays = 1
    SlowCallbacks = FALSE
SPECIFICATION QueueSpec
SYMMETRY Symmetry
INVARIANTS
    AckedMessageWasProcessed
    OneConsumerLoop
    StoppedIsQuiet
    RunningLoopIsSubscribed
PROPERTIES
    ImplementsMessageQueue
