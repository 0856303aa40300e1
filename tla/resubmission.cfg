\* Two requests with one job identifier; everything goes wrong once.
CONSTANTS
    Jobs = {j1}
    Tasks = {t1, t2}
    JobOf <- OneJob
    Backends = {b1}
    Workers = {w1, w2}
    Clients = {b1, w1, w2}
    Results = {r1}
    Nil = Nil
    MaxFaults = 1
    MaxUnread = 3
    MaxCrashes = 1
    MaxDrops = 1
SPECIFICATION PipelineSpec
SYMMETRY Symmetry
INVARIANTS
    QueuedJobIsRecorded
    DeliveredTaskIsHeld
    AckedJobIsFinished
    ProcessedTaskIsOwned
    UnfinishedJobHasTask
PROPERTIES
    TaskLeavesByItsHolder
