\* ack on a channel that is not the one of the delivery.
CONSTANTS
    Threads = {t1, t2}
    Owner = Owner
    Messages = {m1, m2}
    None = None
    MaxConnections = 2
    MaxTags = 2
    MaxFaults = 0
    MaxDeletions = 0
    MaxStrays = 1
    SlowCallbacks = TRUE
SPECIFICATION QueueSpec
SYMMETRY Symmetry
INVARIANTS
    AckedMessageWasProcessed
