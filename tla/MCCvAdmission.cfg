\* Two replicas, two keys, two records on either topic, a crash or a rebalance
\* without a cause; a handler may fail and a commit may be lost.
CONSTANTS
    e1 = e1
    k1 = k1
    k2 = k2
    Alerts = {e1}
    Levels = {0, 1, 2}
    SentSignals <- FailingSignal
    MaxRuns = 2
    MaxSignals = 1
    MaxAttempts = 1
    MaxLate = 1
    None = None
    Replicas = {c1, c2}
    Documents <- Rotation
    Envelopes <- AdmissionRecords
    MaxLog = 2
    MaxFaults = 1
    Unsigned = Unsigned
SPECIFICATION FairSpec
INVARIANT CommitAccountsForRecord
PROPERTIES
    RunIsAdmitted
    EveryRecordTried
CHECK_DEADLOCK FALSE
