\* Two racing handlers, two crashes; a track keeps two points, so the third drops one.
CONSTANTS
    Vessels = {m1, m2}
    Sightings <- IdentitySightings
    MaxDetections = 3
    CorrelationWindow = 1
    CorrelationRadius = 1
    RendezvousRadius = 0
    RendezvousMinDuration = 1
    LoiteringMinDuration = 1
    DarkVesselAISGap = 1
    BaselineMaxSpeed = 1
    Restricted <- NoZones
    EEZ = {}
    PointCap = 2
    Handlers = {h1, h2}
    MaxTime = 0
    MaxCrashes = 2
    None = None
SYMMETRY Symmetry
SPECIFICATION Spec
INVARIANTS
    TypeOK
    OneTrackPerVessel
    AssociationsAreInEngine
