\* One request on one worker: do the stop words of the client reach the model?
CONSTANTS
    None = None
    Omitted = Omitted
    DefaultModel = "default"
    Jobs = {j1}
    Requests <- MCRequests
    LastLines = {"QUEUE_NAME", "REDIS_PREFIX_FOR_STATUS"}
    MaxFaults = 0
SPECIFICATION JourneySpec
INVARIANT StopWordsReachTheModel
