\* A slow worker whose connection is dropped, and that then dies.
CONSTANTS
    Jobs = {j1}
    Tasks = {t1}
    JobOf <- OneJob
    Backends = {b1}
    Workers = {w1, w2}
    Clients = {b1, w1, w2}
    Results = {r1}
    Nil = Nil
    MaxFaults = 0
    MaxUnread = 3
    MaxCrashes = 1
    MaxDrops = 1
SPECIFICATION PipelineSpec

INVARIANTS
    InProgressJobIsNotAbandoned
