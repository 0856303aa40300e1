\* A job queued before any worker has declared the queue.
CONSTANTS
    Jobs = {j1}
    Tasks = {t1}
    JobOf <- OneJob
    Backends = {b1}
    Workers = {w1}
    Clients = {b1, w1}
    Results = {r1}
    Nil = Nil
    MaxFaults = 0
    MaxUnread = 3
    MaxCrashes = 0
    MaxDrops = 0
SPECIFICATION PipelineSpec

INVARIANTS
    PendingJobIsQueued
