\* One alert of either label, one replica, one vessel record; every kind of
\* signal, also ahead of its turn; activities fail any number of times.
CONSTANTS
    e1 = e1
    k1 = k1
    k2 = k2
    Alerts = {e1}
    Levels = {0, 1}
    SentSignals <- EverySignal
    MaxRuns = 1
    MaxSignals = 2
    MaxAttempts = 1
    MaxLate = 1
    None = None
    Replicas = {c1}
    Documents <- OneKey
    Envelopes <- AlertRecords
    MaxLog = 1
    MaxFaults = 0
    Unsigned = Unsigned
SPECIFICATION FairSpec
INVARIANTS
    AuditTrailMatches
PROPERTIES
    ResponseIsLifecycle
    SignalIsActedOn
CHECK_DEADLOCK FALSE
