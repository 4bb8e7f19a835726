\* Attempts end within the lease; the older event is never accepted by Kafka.
SPECIFICATION FairSpec
CONSTANTS
    NumEvents = 2
    Workers = {w1, w2}
    w1 = w1
    w2 = w2
    WorkerID <- OwnIDs
    Lease = 2
    MaxBackoff = 2
    AttemptClamp = 2
    Skew <- AheadSkew
    MaxSkew = 1
    AttemptLimit = 1
    PromptPolling = TRUE
    Poison = {1}
    MaxCrashes = 1
    None = None
PROPERTY EventuallyPublished
CHECK_DEADLOCK TRUE
