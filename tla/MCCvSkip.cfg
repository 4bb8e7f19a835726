\* One replica and two dark-vessel records of one alert.
CONSTANTS
    e1 = e1
    k1 = k1
    k2 = k2
    Alerts = {e1}
    Levels = {0, 1, 2}
    SentSignals <- FailingSignal
    MaxRuns = 1
    MaxSignals = 0
    MaxAttempts = 1
    MaxLate = 0
    None = None
    Replicas = {c1}
    Documents <- OneKey
    Envelopes <- AlertRecords
    MaxLog = 2
    MaxFaults = 0
    Unsigned = Unsigned
SPECIFICATION Spec
INVARIANTS
    FailedIsRetried
CHECK_DEADLOCK FALSE
