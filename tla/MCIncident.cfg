\* One identifier, two source events and two bodies for it, two racing handlers,
\* the whole life cycle; assignments right after the creation and while others
\* may close the incident.
SPECIFICATION Spec
CONSTANTS
    IncidentIDs = {i1}
    SourceEvents = {s1, s2}
    Bodies = {b1, b2}
    Geofences = {g1}
    Evidences = {e1, e2}
    Principals = {p1, p2}
    Clients = {c1, c2}
    AssignedVersions = {1, 3}
    MaxAhead = 1
    None = None
SYMMETRY Symmetry
INVARIANTS
    TypeOK
    OutboxTellsHistory
    ConfirmedAtExpectedVersion
    TransitionConflictIsReal
    AssignRefusalIsTruthful
PROPERTIES
    ClosedIsFinal
    CaseworkIsAtomic
CHECK_DEADLOCK TRUE
