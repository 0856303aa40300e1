\* A reader between the two writes of complete_job.
CONSTANTS
    Jobs = {j1}
    Tasks = {t1}
    JobOf <- OneJob
    Backends = {b1, b2}
    Workers = {w1}
    Clients = {b1, b2, w1}
    Results = {r1}
    Nil = Nil
    MaxFaults = 0
    MaxUnread = 3
    MaxCrashes = 0
    MaxDrops = 0
SPECIFICATION PipelineSpec

INVARIANTS
    CompletedAnswerIsAvailable
