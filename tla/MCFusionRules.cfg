\* One handler, three detections that may come late, the scanner and two crashes;
\* position 0 is a restricted zone.
CONSTANTS
    Vessels = {m1, m2}
    Sightings <- RuleSightings
    MaxDetections = 3
    CorrelationWindow = 1
    CorrelationRadius = 1
    RendezvousRadius = 1
    RendezvousMinDuration = 1
    LoiteringMinDuration = 1
    DarkVesselAISGap = 1
    BaselineMaxSpeed = 1
    Restricted <- OneZone
    EEZ = {}
    PointCap = 4
    Handlers = {h1}
    MaxTime = 2
    MaxCrashes = 2
    None = None
SYMMETRY Symmetry
SPECIFICATION Spec
INVARIANTS
    AnnouncedOnce
    RebuiltMatches
    ProximityIsTrue
PROPERTIES
    ReadsAreCleared
    DarkAlertIsTrue
