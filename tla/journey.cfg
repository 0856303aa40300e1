\* Two requests on one worker, for every model class and configuration.
CONSTANTS
    None = None
    Omitted = Omitted
    DefaultModel = "default"
    Jobs = {j1, j2}
    Requests <- MCRequests
    LastLines = {"QUEUE_NAME", "REDIS_PREFIX_FOR_STATUS"}
    MaxFaults = 1
SPECIFICATION FairJourneySpec
INVARIANTS
    JourneyTypeOK
    ModelIsAskedTheRequest
    ArgumentsAreUsable
    ReplyIsAboutOwnRequest
    FinishedTaskHasItsOutcome
PROPERTY
    QueuedTaskEnds
