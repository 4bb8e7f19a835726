\* One source, two overlapping rotations of two keys: an event, an incident of
\* the same name and two detections.
CONSTANTS
    Sources = {s1}
    Keys = {k1, k2}
    FeedEvents = {v1}
    Detections = {v2, v3}
    Payloads = {x1, x2}
    EventIDOf <- OwnEventID
    Evidences = {r1}
    Operators = {o1, o2}
    ReplayWindow = 1
    ClockSkew = 1
    MaxGrace = 1
    MaxTime = 2
    None = None
SYMMETRY Symmetry
SPECIFICATION Spec
INVARIANTS
    TypeOK
    EvidenceIsTraceable
    DetectionAnnouncedOnce
PROPERTIES
    InactiveSourceIsInert
