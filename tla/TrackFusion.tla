---------------------------- MODULE TrackFusion ----------------------------
(***************************************************************************)
(* Vessel-track fusion: the engine of internal/tracks/fusion.go, its        *)
(* tables (internal/tracks/store.go), the dark-vessel scanner, the request *)
(* handler that feeds the engine after a detection was retained, and the   *)
(* replay that rebuilds the engine when the process starts again.  What a  *)
(* principal may list of it is decided in AccessPolicy.                    *)
(*                                                                         *)
(* The engine works under a mutex, so Ingest, Track and ScanDarkVessels    *)
(* are single steps, but the handler releases the mutex between Ingest and *)
(* Track, and both the handler and the scanner write to the database only  *)
(* afterwards.                                                             *)
(*                                                                         *)
(* A detection is named by its number in the order of admission, and a     *)
(* track by the detection that opened it: track identifiers are UUIDs and  *)
(* never come back.  Positions are points on a line.  Detections without a *)
(* position never reach the engine and are left out.                       *)
(***************************************************************************)
EXTENDS Integers, SequencesExt, AccessPolicy

CONSTANTS
    Sightings,             \* what a detection may say: [mmsi, ais, at, pos, label]
    MaxDetections,         \* bound: detections admitted
    CorrelationWindow, CorrelationRadius,
    RendezvousRadius, RendezvousMinDuration,
    LoiteringMinDuration, DarkVesselAISGap, BaselineMaxSpeed,
    Restricted,            \* restricted zones in configured order, each a set of positions
    EEZ,                   \* positions inside an EEZ zone
    PointCap,              \* points kept per track (4096 in the code)
    Handlers,              \* concurrent admissions
    MaxTime,               \* bound: the clock stops here
    MaxCrashes,            \* bound: crashes of the process
    None                   \* no MMSI, no row, nothing in progress

VARIABLES
    now,                   \* the clock
    retained,              \* table maritime_isr_events, in the order of admission
    process,               \* the process: down, replaying the associations, or serving
    pending,               \* associations the replay has still to take
    engine,                \* Engine.tracks and Engine.byMMSI, empty while the process is down
    rows,                  \* table maritime_vessel_tracks
    associations,          \* table maritime_track_associations, in the order of insertion
    anomalies,             \* table maritime_behaviour_anomalies, with its outbox rows
    call,                  \* admissions in progress
    scan,                  \* anomalies the scanner is about to record
    crashes                \* crashes so far

tables == <<retained, rows, associations, anomalies>>
vars == <<now, retained, process, pending, engine, rows, associations, anomalies, call, scan,
          crashes>>

Detections == 1..MaxDetections
Never == -1                \* the zero time.Time

\* "mmsi" is the detection's own field, "ais" the MMSI in the AIS payload, None
\* for the other modalities; "label" is the rank of the classification.
ASSUME SightingsAssumption ==
    \A s \in Sightings : /\ DOMAIN s = {"mmsi", "ais", "at", "pos", "label"}
                         /\ s.at \in Nat /\ s.pos \in Int /\ s.label \in 0..3
ASSUME BoundsAssumption ==
    /\ MaxDetections \in Nat /\ MaxTime \in Nat /\ MaxCrashes \in Nat
    /\ PointCap \in Nat \ {0}
ASSUME ConfigAssumption == Restricted \in Seq(SUBSET Int) /\ DarkVesselAISGap \in Nat

Anomaly ==
    [kind : {"speed-outlier", "loitering", "rendezvous", "dark-vessel"},
     track : Detections, subject : Detections \cup Range(Restricted) \cup {None},
     label : 0..3, stamp : {"ingest", "scan"} \X Nat]

TypeOK ==
    /\ now \in 0..MaxTime
    /\ retained \in Seq(Sightings) /\ Len(retained) <= MaxDetections
    /\ process \in {"down", "replaying", "serving"}
    /\ pending \subseteq DOMAIN associations
    /\ \A t \in DOMAIN engine.tracks :
          LET track == engine.tracks[t] IN
          /\ track.points # <<>> /\ Len(track.points) <= PointCap
          /\ Range(track.points) \subseteq DOMAIN retained
          /\ DOMAIN track.zoneEnter \subseteq Range(Restricted)
          /\ DOMAIN track.nearSince \subseteq DOMAIN engine.tracks \ {t}
    /\ Range(engine.byMMSI) \subseteq DOMAIN engine.tracks
    /\ anomalies \subseteq Anomaly
    /\ DOMAIN rows \subseteq DOMAIN retained
    /\ crashes \in 0..MaxCrashes

EmptyEngine == [tracks |-> <<>>, byMMSI |-> <<>>]

Init ==
    /\ now = 0
    /\ retained = <<>>
    /\ process = "serving"
    /\ pending = {}
    /\ engine = EmptyEngine
    /\ rows = <<>>
    /\ associations = <<>>
    /\ anomalies = {}
    /\ call = [h \in Handlers |-> None]
    /\ scan = {}
    /\ crashes = 0

-----------------------------------------------------------------------------
(* The engine                                                              *)

Put(map, key, value) == [k \in DOMAIN map \cup {key} |-> IF k = key THEN value ELSE map[k]]
Without(map, key) == Restrict(map, DOMAIN map \ {key})
Apart(x, y) == IF x > y THEN x - y ELSE y - x
LastPoint(track) == retained[Last(track.points)]

newTrack(label) ==
    [mmsi |-> None, label |-> label, points |-> <<>>, lastAISAt |-> Never,
     zoneEnter |-> <<>>, loiterAlerted |-> {}, nearSince |-> <<>>,
     rendezAlerted |-> {}, darkAlerted |-> FALSE]

\* Faulty variant: tracks of another vessel are candidates too.
CandidatesAnyone(s) ==
    {t \in DOMAIN engine.tracks :
        /\ Apart(s.at, LastPoint(engine.tracks[t]).at) <= CorrelationWindow
        /\ Apart(s.pos, LastPoint(engine.tracks[t]).pos) <= CorrelationRadius}

\* The tracks inside the correlation window whose MMSI does not rule them out.
Candidates(s) ==
    {t \in DOMAIN engine.tracks :
        LET track == engine.tracks[t] IN
        /\ s.mmsi = None \/ track.mmsi = None \/ track.mmsi = s.mmsi
        /\ Apart(s.at, LastPoint(track).at) <= CorrelationWindow
        /\ Apart(s.pos, LastPoint(track).pos) <= CorrelationRadius}

\* associate: the track bound to the MMSI, else a nearest candidate (of equally
\* near ones the map's iteration order decides), else a new track.
Associate(d) ==
    LET s == retained[d]
        away(t) == Apart(s.pos, LastPoint(engine.tracks[t]).pos)
    IN  IF s.mmsi \in DOMAIN engine.byMMSI THEN {engine.byMMSI[s.mmsi]}
        ELSE IF Candidates(s) = {} THEN {d}
        ELSE {t \in Candidates(s) : \A u \in Candidates(s) : away(t) <= away(u)}

\* The new track of associate, already bound to the detection's own MMSI.
WithTrack(e, t, d) ==
    LET s == retained[d] IN
    IF t \in DOMAIN e.tracks THEN e
    ELSE [tracks |-> Put(e.tracks, t, [newTrack(s.label) EXCEPT !.mmsi = s.mmsi]),
          byMMSI |-> IF s.mmsi = None THEN e.byMMSI ELSE Put(e.byMMSI, s.mmsi, t)]

\* Faulty variant: a track keeps one point too many.
KeptOneMore(points) == IF Len(points) > PointCap + 1 THEN Tail(points) ELSE points

\* The newest PointCap points.
Kept(points) == IF Len(points) > PointCap THEN Tail(points) ELSE points

\* Faulty variant: the first report is kept.
FirstAISAt(known, s) == IF s.ais = None \/ known # Never THEN known ELSE s.at

\* lastAISAt is the time of the AIS report taken last.
LastAISAt(known, s) == IF s.ais = None THEN known ELSE s.at

\* Faulty variant: the classification seen last.
LatestClassification(a, b) == b

\* The higher of two classifications.
MaxClassification(a, b) == Max({a, b})

\* absorbPointLocked: point, MMSI binding (the AIS payload first), newest AIS
\* report, re-armed dark-vessel rule and the classification maximum.
AbsorbPoint(e, t, d) ==
    LET s == retained[d]
        track == e.tracks[t]
        mmsi == IF track.mmsi # None THEN track.mmsi
                ELSE IF s.ais # None THEN s.ais ELSE s.mmsi
    IN  [tracks |-> Put(e.tracks, t,
            [track EXCEPT
                !.mmsi = mmsi,
                !.points = Kept(Append(@, d)),
                !.label = MaxClassification(@, s.label),
                !.darkAlerted = @ /\ (s.ais = None \/ s.at < track.lastAISAt),
                !.lastAISAt = LastAISAt(@, s)]),
         byMMSI |-> IF mmsi = track.mmsi THEN e.byMMSI ELSE Put(e.byMMSI, mmsi, t)]

\* The other tracks whose last point is near the new one in space and time.
Near(e, t, d) ==
    {u \in DOMAIN e.tracks \ {t} :
        LET last == LastPoint(e.tracks[u]) IN
        /\ Apart(retained[d].at, last.at) <= RendezvousMinDuration
        /\ Apart(retained[d].pos, last.pos) <= RendezvousRadius}

\* When the proximity of two tracks began: the earlier of what both remember.
NearSince(e, t, u, d) ==
    LET known == {m[1][m[2]] : m \in {m \in {<<e.tracks[t].nearSince, u>>,
                                             <<e.tracks[u].nearSince, t>>} :
                                         m[2] \in DOMAIN m[1]}}
    IN  Min(IF known # {} THEN known ELSE {retained[d].at, LastPoint(e.tracks[u]).at})

ZonesAt(pos) == {z \in Range(Restricted) : pos \in z}

\* Faulty variant: a proximity that ended is forgotten on one side only.
RuleStateOneSided(e, t, d) ==
    LET s == retained[d]
        near == Near(e, t, d)
    IN  [e EXCEPT !.tracks = [u \in DOMAIN e.tracks |->
            LET track == e.tracks[u] IN
            IF u = t
            THEN [track EXCEPT
                    !.zoneEnter = [z \in ZonesAt(s.pos) |-> IF z \in DOMAIN @ THEN @[z] ELSE s.at],
                    !.nearSince = [v \in near |-> NearSince(e, t, v, d)]]
            ELSE IF u \in near
            THEN [track EXCEPT !.nearSince = Put(@, t, NearSince(e, t, u, d))]
            ELSE track]]

\* Zone entries and pair proximity after the new point: zones that were left and
\* tracks that are no longer near are forgotten, on both sides of a pair.
RuleState(e, t, d) ==
    LET s == retained[d]
        near == Near(e, t, d)
    IN  [e EXCEPT !.tracks = [u \in DOMAIN e.tracks |->
            LET track == e.tracks[u] IN
            IF u = t
            THEN [track EXCEPT
                    !.zoneEnter = [z \in ZonesAt(s.pos) |-> IF z \in DOMAIN @ THEN @[z] ELSE s.at],
                    !.nearSince = [v \in near |-> NearSince(e, t, v, d)]]
            ELSE IF u \in near
            THEN [track EXCEPT !.nearSince = Put(@, t, NearSince(e, t, u, d))]
            ELSE [track EXCEPT !.nearSince = Without(@, t)]]]

Speeding(track) ==
    /\ Len(track.points) >= 2
    /\ LET new == LastPoint(track)
           old == retained[track.points[Len(track.points) - 1]]
       IN  new.at > old.at /\ Apart(new.pos, old.pos) > BaselineMaxSpeed * (new.at - old.at)

Loitering(track) ==
    {z \in DOMAIN track.zoneEnter \ track.loiterAlerted :
        LastPoint(track).at - track.zoneEnter[z] >= LoiteringMinDuration}

Meeting(track) ==
    {u \in DOMAIN track.nearSince \ track.rendezAlerted :
        LastPoint(track).at - track.nearSince[u] >= RendezvousMinDuration}

\* The anomalies Ingest returns, in the order of its rules: speed, one place for
\* each configured zone, and the tracks it met in the map's iteration order; None
\* where a rule raises nothing.  Each rendezvous raises the label of the track to
\* that of the other one before it is emitted.
Alerts(e, t, d, meetings) ==
    LET track == e.tracks[t]
        emit(kind, subject, label) ==
            [kind |-> kind, track |-> t, subject |-> subject, label |-> label,
             stamp |-> <<"ingest", d>>]
        raised(n) == Max({track.label} \cup {e.tracks[meetings[m]].label : m \in 1..n})
    IN  <<IF Speeding(track) THEN emit("speed-outlier", None, track.label) ELSE None>>
        \o [n \in DOMAIN Restricted |->
              IF Restricted[n] \in Loitering(track)
              THEN emit("loitering", Restricted[n], track.label) ELSE None]
        \o [n \in DOMAIN meetings |-> emit("rendezvous", meetings[n], raised(n))]

\* Faulty variant: a rendezvous is latched on the reporting track only.
AlertedOneSided(e, t) ==
    LET met == Meeting(e.tracks[t])
    IN  [e EXCEPT !.tracks[t] =
            [@ EXCEPT !.loiterAlerted = @ \cup Loitering(e.tracks[t]),
                      !.rendezAlerted = @ \cup met,
                      !.label = Max({@} \cup {e.tracks[v].label : v \in met})]]

\* The latches and the label after those alerts.
Alerted(e, t) ==
    LET met == Meeting(e.tracks[t])
    IN  [e EXCEPT !.tracks = [u \in DOMAIN e.tracks |->
            IF u = t
            THEN [e.tracks[t] EXCEPT
                    !.loiterAlerted = @ \cup Loitering(e.tracks[t]),
                    !.rendezAlerted = @ \cup met,
                    !.label = Max({@} \cup {e.tracks[v].label : v \in met})]
            ELSE IF u \in met THEN [e.tracks[u] EXCEPT !.rendezAlerted = @ \cup {t}]
            ELSE e.tracks[u]]]

\* Faulty variant: the replay never forgets a zone or a proximity.
RestoreRuleStateKeeping(e, t, d) ==
    LET after == RuleState(e, t, d)
    IN  [after EXCEPT !.tracks[t].zoneEnter = @ @@ e.tracks[t].zoneEnter,
                      !.tracks[t].nearSince = @ @@ e.tracks[t].nearSince]

\* restoreRuleStateLocked: the same transitions as at ingest, without alerts.
RestoreRuleState(e, t, d) == RuleState(e, t, d)

\* Faulty variant: a track that is not there yet gets an identity of its own.
ReplayMinting(e, a) ==
    LET t == IF a.track \in DOMAIN e.tracks THEN a.track ELSE a.det
        opened == IF t \in DOMAIN e.tracks THEN e
                  ELSE [e EXCEPT !.tracks = Put(@, t, newTrack(retained[a.det].label))]
    IN  RestoreRuleState(AbsorbPoint(opened, t, a.det), t, a.det)

\* Replay of one association under its persisted track identity.
Replay(e, a) ==
    LET opened == IF a.track \in DOMAIN e.tracks THEN e
                  ELSE [e EXCEPT !.tracks = Put(@, a.track, newTrack(retained[a.det].label))]
    IN  RestoreRuleState(AbsorbPoint(opened, a.track, a.det), a.track, a.det)

\* ORDER BY observed_at, associated_at.
ReplayOrder(m, n) ==
    LET at(k) == retained[associations[k].det].at
    IN  at(m) < at(n) \/ (at(m) = at(n) /\ m < n)

\* The engine that replayTrackAssociations builds from what is recorded now.
Rebuilt ==
    FoldLeft(LAMBDA e, n : Replay(e, associations[n]), EmptyEngine,
             SetToSortSeq(DOMAIN associations, ReplayOrder))

-----------------------------------------------------------------------------
(* The admission handler                                                   *)

At(h, phase) == call[h] # None /\ call[h].phase = phase

\* A new detection has been verified and retained (FeedTrust); an admission that
\* replays a retained one never reaches the engine.
Admit(h, s) ==
    /\ process = "serving"
    /\ call[h] = None
    /\ Len(retained) < MaxDetections
    /\ retained' = Append(retained, s)
    /\ call' = [call EXCEPT ![h] = [phase |-> "admitted", det |-> Len(retained) + 1]]
    /\ UNCHANGED <<now, process, pending, engine, rows, associations, anomalies, scan, crashes>>

\* Engine.Ingest.
Ingest(h) ==
    /\ At(h, "admitted")
    /\ LET d == call[h].det
       IN  \E t \in Associate(d) :
              LET e == RuleState(AbsorbPoint(WithTrack(engine, t, d), t, d), t, d)
              IN  \E meetings \in SetToSeqs(Meeting(e.tracks[t])) :
                     /\ engine' = Alerted(e, t)
                     /\ call' = [call EXCEPT ![h] =
                            [phase |-> "fused", det |-> d, track |-> t,
                             batch |-> Alerts(e, t, d, meetings)]]
    /\ UNCHANGED <<now, process, pending, tables, scan, crashes>>

\* What RecordFusion stores of a track.
RowOf(track) ==
    [mmsi |-> track.mmsi, label |-> track.label, count |-> Len(track.points),
     first |-> retained[Head(track.points)].at, last |-> LastPoint(track).at]

\* Engine.Track: the copy of the track, taken under the mutex a second time.
Snapshot(h) ==
    /\ At(h, "fused")
    /\ call' = [call EXCEPT ![h] =
                  [phase |-> "snapshot", det |-> @.det, track |-> @.track, batch |-> @.batch,
                   row |-> RowOf(engine.tracks[@.track])]]
    /\ UNCHANGED <<now, process, pending, engine, tables, scan, crashes>>

\* The track upsert: the first MMSI stays, the rest is the snapshot's.
Upsert(old, new) ==
    [new EXCEPT !.mmsi = IF old.mmsi # None THEN old.mmsi ELSE @,
                !.first = old.first,
                !.last = Max({old.last, @})]

AnomalyID(a) == <<a.kind, a.track, a.stamp>>

\* ON CONFLICT (anomaly_id) DO NOTHING: of a batch the first of each identity.
Insertable(batch) ==
    {batch[n] : n \in {n \in DOMAIN batch :
        /\ batch[n] # None
        /\ \A m \in 1..(n - 1) :
              batch[m] # None => AnomalyID(batch[m]) # AnomalyID(batch[n])}}

\* Store.RecordFusion.
RecordFusion(h) ==
    /\ At(h, "snapshot")
    /\ LET c == call[h]
       IN  /\ rows' = Put(rows, c.track, IF c.track \in DOMAIN rows
                                         THEN Upsert(rows[c.track], c.row) ELSE c.row)
           /\ associations' = Append(associations, [track |-> c.track, det |-> c.det])
           /\ anomalies' = anomalies \cup Insertable(c.batch)
    /\ call' = [call EXCEPT ![h] = None]
    /\ UNCHANGED <<now, process, pending, retained, engine, scan, crashes>>

\* The transaction fails and the request ends with an error: nothing repeats it.
RecordFusionFails(h) ==
    /\ At(h, "snapshot")
    /\ call' = [call EXCEPT ![h] = None]
    /\ UNCHANGED <<now, process, pending, tables, engine, scan, crashes>>

-----------------------------------------------------------------------------
(* The dark-vessel scanner                                                 *)

\* The tracks a scan alerts on.
Dark ==
    {t \in DOMAIN engine.tracks :
        LET track == engine.tracks[t] IN
        /\ ~track.darkAlerted /\ track.mmsi # None /\ track.lastAISAt # Never
        /\ now - track.lastAISAt >= DarkVesselAISGap
        /\ LastPoint(track).pos \in EEZ \cup UNION Range(Restricted)}

\* Engine.ScanDarkVessels, called by scanOnce.  A scan that finds nothing is
\* over at once.
ScanDarkVessels ==
    /\ process = "serving"
    /\ scan = {}
    /\ scan' = {[kind |-> "dark-vessel", track |-> t, subject |-> None,
                 label |-> engine.tracks[t].label, stamp |-> <<"scan", now>>] : t \in Dark}
    /\ engine' = [engine EXCEPT !.tracks = [t \in DOMAIN @ |->
                     IF t \in Dark THEN [@[t] EXCEPT !.darkAlerted = TRUE] ELSE @[t]]]
    /\ UNCHANGED <<now, process, pending, tables, call, crashes>>

\* Store.RecordAnomalies.  Scans are an interval apart: none shares an anomaly_id.
RecordAnomalies ==
    /\ scan # {}
    /\ anomalies' = anomalies \cup scan
    /\ scan' = {}
    /\ UNCHANGED <<now, process, pending, retained, engine, rows, associations, call, crashes>>

\* The transaction fails: the error is logged and the anomalies are dropped.
RecordAnomaliesFails ==
    /\ scan # {}
    /\ scan' = {}
    /\ UNCHANGED <<now, process, pending, tables, engine, call, crashes>>

\* listTracks: the tracks of the engine a principal may read.
ListTracks(principal) ==
    {t \in DOMAIN engine.tracks : CanReadTracks(principal, engine.tracks[t].label)}

-----------------------------------------------------------------------------
Tick ==
    /\ now < MaxTime
    /\ now' = now + 1
    /\ UNCHANGED <<process, pending, tables, engine, call, scan, crashes>>

\* The process ends, serving or still replaying: the engine, the requests and the
\* scanner's batch are lost.
Crash ==
    /\ process # "down"
    /\ crashes < MaxCrashes
    /\ process' = "down"
    /\ pending' = {}
    /\ engine' = EmptyEngine
    /\ call' = [h \in Handlers |-> None]
    /\ scan' = {}
    /\ crashes' = crashes + 1
    /\ UNCHANGED <<now, tables>>

\* The process starts with an empty engine and lists the associations to replay.
Restart ==
    /\ process = "down"
    /\ process' = "replaying"
    /\ pending' = DOMAIN associations
    /\ UNCHANGED <<now, tables, engine, call, scan, crashes>>

\* replayTrackAssociations takes the next association.
ReplayNext ==
    /\ process = "replaying"
    /\ \E n \in pending :
          /\ \A m \in pending \ {n} : ReplayOrder(n, m)
          /\ engine' = Replay(engine, associations[n])
          /\ pending' = pending \ {n}
    /\ UNCHANGED <<now, process, tables, call, scan, crashes>>

\* The replay is over: the server accepts traffic and the scanner runs.
Serve ==
    /\ process = "replaying"
    /\ pending = {}
    /\ process' = "serving"
    /\ UNCHANGED <<now, pending, tables, engine, call, scan, crashes>>

Next ==
    \/ \E h \in Handlers :
          \/ \E s \in Sightings : Admit(h, s)
          \/ Ingest(h) \/ Snapshot(h) \/ RecordFusion(h) \/ RecordFusionFails(h)
    \/ ScanDarkVessels \/ RecordAnomalies \/ RecordAnomaliesFails
    \/ Tick \/ Crash \/ Restart \/ ReplayNext \/ Serve

Spec == Init /\ [][Next]_vars

-----------------------------------------------------------------------------
(* Properties                                                              *)

Up == process = "serving"
Idle == \A h \in Handlers : call[h] = None
PointsOf(t) == Range(engine.tracks[t].points)

\* The AIS payload names the vessel that the detection itself names, or there is
\* none.  Validate asks neither for that nor for less: a report may leave its own
\* mmsi out (what events.go:231 fills in is lost), or name another vessel.
AISAgrees(d) == retained[d].ais \in {None, retained[d].mmsi}
Contradicts(d) == retained[d].mmsi # None /\ ~AISAgrees(d)

\* Identity discipline (fusion.go associate and absorbPointLocked), whatever fails
\* and after every restart: the MMSI index names a track that carries the MMSI and
\* knows every MMSI that a track carries.  While all AIS payloads agree, the index
\* names the only such track, and a detection that names a vessel sits in it.  Until
\* the first crash a detection that names a vessel sits in the track of that vessel
\* or of the one in its payload, whatever the payloads say.
OneTrackPerVessel ==
    Up => LET mmsi(t) == engine.tracks[t].mmsi IN
          /\ \A m \in DOMAIN engine.byMMSI : mmsi(engine.byMMSI[m]) = m
          /\ \A t \in DOMAIN engine.tracks : mmsi(t) # None => mmsi(t) \in DOMAIN engine.byMMSI
          /\ (\A d \in DOMAIN retained : AISAgrees(d)) =>
                \A t \in DOMAIN engine.tracks :
                   /\ mmsi(t) # None => engine.byMMSI[mmsi(t)] = t
                   /\ \A d \in PointsOf(t) : retained[d].mmsi \in {None, mmsi(t)}
          /\ crashes = 0 =>
                \A t \in DOMAIN engine.tracks : \A d \in PointsOf(t) :
                   retained[d].mmsi # None => mmsi(t) \in {retained[d].mmsi, retained[d].ais}

\* An association that was persisted is in the engine, in the track it was
\* persisted under, before and after a restart (Engine.Replay pins the identity);
\* no detection is in two tracks.
AssociationsAreInEngine ==
    Up => /\ \A n \in DOMAIN associations :
                LET a == associations[n] IN
                /\ a.track \in DOMAIN engine.tracks
                /\ a.det \in PointsOf(a.track) \/ Len(engine.tracks[a.track].points) = PointCap
          /\ \A t, u \in DOMAIN engine.tracks : PointsOf(t) \cap PointsOf(u) # {} => t = u

\* One rendezvous of two tracks is announced once per life of the process: the
\* latch is set on both tracks and only a restart releases it (Engine.Replay).
RendezvousOnce ==
    \A t, u \in Detections :
        Cardinality({a \in anomalies : a.kind = "rendezvous" /\ {a.track, a.subject} = {t, u}})
            <= 1 + crashes

\* One silence of a vessel is announced once (ScanDarkVessels): every further
\* alert takes another AIS report, or a restart.
SilenceOnce ==
    \A t \in Detections :
        Cardinality({a \in anomalies : a.kind = "dark-vessel" /\ a.track = t})
            <= crashes + Cardinality({d \in DOMAIN retained : retained[d].ais # None})

\* One behaviour is announced once: a meeting whichever vessel reports next, a
\* silence however often it is scanned (the latches of fusion.go).
AnnouncedOnce == RendezvousOnce /\ SilenceOnce

\* The places of a track's AIS reports among its points.
Reports(t) ==
    LET points == engine.tracks[t].points IN {n \in DOMAIN points : retained[points[n]].ais # None}

\* A dark-vessel alert is about a vessel whose newest AIS report is older than the
\* gap (ScanDarkVessels), whatever else was seen of it and after every restart,
\* provided its reports came in the order of observation.  A late report moves
\* lastAISAt backwards, and then the alert may be wrong.
DarkAlertIsTrue ==
    [][\A a \in scan' \ scan :
          LET at(n) == retained[engine.tracks[a.track].points[n]].at
              reports == Reports(a.track)
          IN  (\A m, n \in reports : m < n => at(m) <= at(n)) =>
                  \A n \in reports : now - at(n) >= DarkVesselAISGap]_vars

InOrder == \A m, n \in DOMAIN retained : m < n => retained[m].at <= retained[n].at
AllRecorded ==
    \A t \in DOMAIN engine.tracks :
        /\ Len(engine.tracks[t].points) < PointCap
        /\ PointsOf(t) \subseteq {associations[n].det : n \in DOMAIN associations}

\* A restart at a quiet moment restores what the engine knew (fusion.go Replay):
\* when one handler fused detections that arrived in the order of observation,
\* and all of them were recorded and none dropped, the replay gives back every
\* track with its points, newest AIS report, zone entries and proximities, and
\* with its MMSI as long as no detection names another vessel than its AIS payload:
\* Ingest opens a track under the detection's own MMSI, Replay under the payload's.
\* The alert latches, and a label that a rendezvous raised, are not restored.
RebuiltMatches ==
    Up /\ Idle /\ InOrder /\ AllRecorded =>
        /\ DOMAIN Rebuilt.tracks = DOMAIN engine.tracks
        /\ \A t \in DOMAIN engine.tracks :
              \A field \in {"points", "lastAISAt", "zoneEnter", "nearSince"} :
                 Rebuilt.tracks[t][field] = engine.tracks[t][field]
        /\ (\A d \in DOMAIN retained : ~Contradicts(d)) =>
              /\ Rebuilt.byMMSI = engine.byMMSI
              /\ \A t \in DOMAIN engine.tracks : Rebuilt.tracks[t].mmsi = engine.tracks[t].mmsi

\* The detections at which the proximity of two tracks was judged, each with the
\* newest point of the other track, and those since which it held every time.
Other(t, u, d) == Max({p \in PointsOf(IF d \in PointsOf(t) THEN u ELSE t) : p < d})
Judged(t, u) ==
    {d \in PointsOf(t) \cup PointsOf(u) :
        \E p \in PointsOf(IF d \in PointsOf(t) THEN u ELSE t) : p < d}
NearAt(t, u, d) ==
    LET other == retained[Other(t, u, d)] IN
    /\ Apart(retained[d].at, other.at) <= RendezvousMinDuration
    /\ Apart(retained[d].pos, other.pos) <= RendezvousRadius
Together(t, u) ==
    {d \in Judged(t, u) : \A c \in Judged(t, u) : c >= d => NearAt(t, u, c)}

\* Both tracks of a pair remember its proximity exactly while it lasts, and as
\* beginning when the two were seen together first, since they were last seen
\* apart (nearSince in fusion.go evaluateLocked and restoreRuleStateLocked), also
\* after a restart.  It is about one handler, detections that came in the order of
\* observation and tracks that dropped none: their numbers tell the order then.
ProximityIsTrue ==
    Up /\ InOrder /\ (\A t \in DOMAIN engine.tracks : Len(engine.tracks[t].points) < PointCap) =>
        \A t \in DOMAIN engine.tracks : \A u \in DOMAIN engine.tracks \ {t} :
            LET together == Together(t, u)
                nearSince == engine.tracks[t].nearSince
            IN  /\ u \in DOMAIN nearSince <=> together # {}
                /\ u \in DOMAIN nearSince =>
                      LET first == Min(together)
                      IN  nearSince[u] = Min({retained[first].at, retained[Other(t, u, first)].at})

\* A listing shows no track that holds, and no anomaly that was raised by, a
\* detection above the reader's clearance.
ListedIsCleared ==
    \A clearance \in 0..3 :
        LET reader == [roles |-> {"nn-officer"}, clearance |-> clearance]
            cleared(d) == retained[d].label <= clearance
        IN  /\ Up => \A t \in ListTracks(reader) : \A d \in PointsOf(t) : cleared(d)
            /\ \A a \in Listed(reader, anomalies) :
                  a.stamp[1] = "ingest" => cleared(a.stamp[2])

\* The anomalies that a step raises, and the tracks one is about.
RaisedNow ==
    (scan' \ scan) \cup UNION {Range(call'[h].batch) \ {None} :
                                  h \in {h \in Handlers : At(h, "admitted") /\ At(h, "fused")'}}
About(a) == {a.track} \cup IF a.kind = "rendezvous" THEN {a.subject} ELSE {}

\* When it is raised, the label of an anomaly is not below that of anything recorded
\* or held of the vessel, or of either vessel that met.
RaisedCovers ==
    \A a \in RaisedNow : \A t \in About(a) :
        /\ \A d \in Range(engine'.tracks[t].points) : retained[d].label <= a.label
        /\ \A n \in DOMAIN associations :
              associations[n].track = t => retained[associations[n].det].label <= a.label

\* Nothing reaches a reader above its clearance through what fusion derives
\* (listTracks, ListAnomalies): neither the points of a track that is listed, nor
\* the detection that raised a listed anomaly, nor what was known of its vessels when it was
\* raised, although labels are raised step by step and rebuilt after every restart.
ReadsAreCleared == [][RaisedCovers /\ ListedIsCleared']_vars
=============================================================================
