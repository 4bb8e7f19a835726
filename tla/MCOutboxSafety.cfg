\* Attempts may outlast their lease, clocks disagree, publishers crash.
SPECIFICATION Spec
CONSTANTS
    NumEvents = 2
    Workers = {w1, w2}
    w1 = w1
    w2 = w2
    WorkerID <- OwnIDs
    Lease = 3
    MaxBackoff = 2
    AttemptClamp = 3
    Skew <- AheadSkew
    MaxSkew = 1
    AttemptLimit = 4
    PromptPolling = FALSE
    Poison = {}
    MaxCrashes = 1
    None = None
INVARIANTS
    TypeOK
    PublishedWasDelivered
    ClaimHeldForLease
PROPERTY PublishedIsFinal
CHECK_DEADLOCK TRUE
