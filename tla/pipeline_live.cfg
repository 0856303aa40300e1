\* Everything goes wrong once: a failing command, a crash, a dropped connection.
CONSTANTS
    Jobs = {j1}
    Tasks = {t1}
    JobOf <- OneJob
    Backends = {b1}
    Workers = {w1, w2}
    Clients = {b1, w1, w2}
    Results = {r1}
    Nil = Nil
    MaxFaults = 1
    MaxUnread = 3
    MaxCrashes = 1
    MaxDrops = 1
SPECIFICATION FairPipelineSpec
PROPERTIES
    EveryQueuedTaskIsAcked
    EveryRequestIsAnswered
    ImplementsLifecycle
