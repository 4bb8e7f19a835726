------------------------- MODULE TrackFusionProofs -------------------------
(***************************************************************************)
(* Proofs about TrackFusion.  Ingest and the replay both add one detection *)
(* to one track; Fused says what that does to the engine, whichever of     *)
(* them did it, and the invariants are proved from it.                     *)
(***************************************************************************)
EXTENDS TrackFusion, FiniteSetTheorems, TLAPS

-----------------------------------------------------------------------------
(* The maps of the engine                                                  *)

TrackFields ==
    {"mmsi", "label", "points", "lastAISAt", "zoneEnter", "loiterAlerted", "nearSince",
     "rendezAlerted", "darkAlerted"}

\* An engine has its two maps, and tracks have their fields.
Shape(e) ==
    /\ DOMAIN e = {"tracks", "byMMSI"}
    /\ \A t \in DOMAIN e.tracks : DOMAIN e.tracks[t] = TrackFields

\* Put changes one key.
LEMMA PutFacts ==
    ASSUME NEW map, NEW key, NEW value
    PROVE  /\ DOMAIN Put(map, key, value) = DOMAIN map \cup {key}
           /\ Put(map, key, value)[key] = value
           /\ \A x \in DOMAIN map : x # key => Put(map, key, value)[x] = map[x]
  BY DEF Put

\* Without removes one key.
LEMMA WithoutFacts ==
    ASSUME NEW map, NEW key
    PROVE  DOMAIN Without(map, key) = DOMAIN map \ {key}
  BY DEF Without, Restrict

\* The greatest of some labels.
LEMMA MaxLabel ==
    ASSUME NEW S \in SUBSET (0..3), S # {}
    PROVE  Max(S) \in S /\ \A y \in S : Max(S) >= y
<1>1. \E x \in S : \A y \in S : x >= y
  <2>1. CASE 3 \in S
    BY <2>1
  <2>2. CASE 3 \notin S /\ 2 \in S
    BY <2>2
  <2>3. CASE 3 \notin S /\ 2 \notin S /\ 1 \in S
    BY <2>3
  <2>4. CASE 3 \notin S /\ 2 \notin S /\ 1 \notin S
    <3>1. \A y \in S : y = 0
      BY <2>4
    <3>2. PICK x \in S : TRUE
      OBVIOUS
    <3> QED
      BY <3>1, <3>2
  <2> QED
    BY <2>1, <2>2, <2>3, <2>4
<1> QED
  BY <1>1 DEF Max

-----------------------------------------------------------------------------
(* One detection added to one track                                        *)

\* What a track and its points were before it was opened.
Known(e, t) == IF t \in DOMAIN e.tracks THEN e.tracks[t].mmsi ELSE None
PointsIn(e, t) == IF t \in DOMAIN e.tracks THEN e.tracks[t].points ELSE <<>>
AISAt(e, t) == IF t \in DOMAIN e.tracks THEN e.tracks[t].lastAISAt ELSE Never

\* The fields that another track's detection leaves alone.
Same(a, b) ==
    /\ a.mmsi = b.mmsi /\ a.label = b.label /\ a.points = b.points
    /\ a.lastAISAt = b.lastAISAt /\ a.darkAlerted = b.darkAlerted

\* The track with its detection: the point, the newest report, the label, and the
\* silence latch, which only a report releases.
Grown(e, f, t, d) ==
    /\ f.tracks[t].points = Kept(Append(PointsIn(e, t), d))
    /\ f.tracks[t].lastAISAt = LastAISAt(AISAt(e, t), retained[d])
    /\ f.tracks[t].label \in 0..3 /\ retained[d].label <= f.tracks[t].label
    /\ t \in DOMAIN e.tracks => e.tracks[t].label <= f.tracks[t].label
    /\ t \in DOMAIN e.tracks /\ retained[d].ais = None =>
          (e.tracks[t].darkAlerted => f.tracks[t].darkAlerted)

\* The rules' maps name zones and other tracks.
RuleMaps(e) ==
    \A u \in DOMAIN e.tracks :
        /\ DOMAIN e.tracks[u].zoneEnter \subseteq Range(Restricted)
        /\ DOMAIN e.tracks[u].nearSince \subseteq DOMAIN e.tracks \ {u}

\* The vessels that a detection names, itself or in its AIS payload, and what it
\* binds: a track that is bound stays so, another one takes one of these vessels.
Names(d) == {retained[d].mmsi, retained[d].ais} \ {None}
Bound(e, f, t, d) ==
    IF Known(e, t) # None \/ Names(d) = {}
    THEN f.tracks[t].mmsi = Known(e, t) /\ f.byMMSI = e.byMMSI
    ELSE \E m \in Names(d) : f.tracks[t].mmsi = m /\ f.byMMSI = Put(e.byMMSI, m, t)

Fused(e, f, t, d) ==
    /\ Shape(f)
    /\ DOMAIN f.tracks = DOMAIN e.tracks \cup {t}
    /\ \A u \in DOMAIN e.tracks \ {t} : Same(f.tracks[u], e.tracks[u])
    /\ Grown(e, f, t, d)
    /\ \A m \in DOMAIN f.byMMSI :
          f.byMMSI[m] = t \/ (m \in DOMAIN e.byMMSI /\ f.byMMSI[m] = e.byMMSI[m])
    /\ RuleMaps(f)
    /\ Bound(e, f, t, d)

\* The engine with the track that takes the detection: the same, or with a new
\* track, which Ingest has bound to the detection's MMSI and the replay has not.
Opened(e, o, t, d) ==
    /\ Shape(o)
    /\ DOMAIN o.tracks = DOMAIN e.tracks \cup {t}
    /\ \A u \in DOMAIN e.tracks : o.tracks[u] = e.tracks[u]
    /\ t \in DOMAIN e.tracks => o.byMMSI = e.byMMSI
    /\ t \notin DOMAIN e.tracks =>
          /\ o.tracks[t].points = <<>> /\ o.tracks[t].label = retained[d].label
          /\ o.tracks[t].lastAISAt = Never
          /\ o.tracks[t].zoneEnter = <<>> /\ o.tracks[t].nearSince = <<>>
          /\ o.tracks[t].rendezAlerted = {}
          /\ \/ o.tracks[t].mmsi = None /\ o.byMMSI = e.byMMSI
             \/ /\ retained[d].mmsi # None
                /\ o.tracks[t].mmsi = retained[d].mmsi
                /\ o.byMMSI = Put(e.byMMSI, retained[d].mmsi, t)

\* A new track has its fields.
LEMMA NewTrackFacts ==
    ASSUME NEW label, NEW m
    PROVE  LET track == [newTrack(label) EXCEPT !.mmsi = m] IN
           /\ DOMAIN track = TrackFields
           /\ track.mmsi = m /\ track.label = label /\ track.points = <<>>
           /\ track.lastAISAt = Never /\ track.zoneEnter = <<>> /\ track.nearSince = <<>>
           /\ track.rendezAlerted = {}
  BY DEF newTrack, TrackFields

LEMMA BareTrackFacts ==
    ASSUME NEW label
    PROVE  LET track == newTrack(label) IN
           /\ DOMAIN track = TrackFields
           /\ track.mmsi = None /\ track.label = label /\ track.points = <<>>
           /\ track.lastAISAt = Never /\ track.zoneEnter = <<>> /\ track.nearSince = <<>>
           /\ track.rendezAlerted = {}
  BY DEF newTrack, TrackFields

\* associate opens the track.
LEMMA WithTrackOpens ==
    ASSUME NEW e, Shape(e), NEW t, NEW d
    PROVE  Opened(e, WithTrack(e, t, d), t, d)
<1>1. CASE t \in DOMAIN e.tracks
  <2>1. WithTrack(e, t, d) = e
    BY <1>1 DEF WithTrack
  <2> QED
    BY <1>1, <2>1 DEF Opened
<1>2. CASE t \notin DOMAIN e.tracks
  <2> DEFINE m == retained[d].mmsi
             track == [newTrack(retained[d].label) EXCEPT !.mmsi = m]
             index == IF m = None THEN e.byMMSI ELSE Put(e.byMMSI, m, t)
             o == [tracks |-> Put(e.tracks, t, track), byMMSI |-> index]
  <2>1. WithTrack(e, t, d) = o
    BY <1>2 DEF WithTrack
  <2>2. /\ DOMAIN track = TrackFields
        /\ track.mmsi = m /\ track.label = retained[d].label /\ track.points = <<>>
        /\ track.lastAISAt = Never /\ track.zoneEnter = <<>> /\ track.nearSince = <<>>
        /\ track.rendezAlerted = {}
    BY NewTrackFacts
  <2> HIDE DEF track
  <2>3. /\ DOMAIN o = {"tracks", "byMMSI"}
        /\ o.tracks = Put(e.tracks, t, track) /\ o.byMMSI = index
    OBVIOUS
  <2> HIDE DEF o
  <2>4. /\ DOMAIN o.tracks = DOMAIN e.tracks \cup {t}
        /\ o.tracks[t] = track
        /\ \A u \in DOMAIN e.tracks : o.tracks[u] = e.tracks[u]
    BY <1>2, <2>3 DEF Put
  <2>5. Shape(o)
    BY <2>2, <2>3, <2>4 DEF Shape
  <2> QED
    BY <1>2, <2>1, <2>2, <2>3, <2>4, <2>5 DEF Opened
<1> QED
  BY <1>1, <1>2

\* Replay opens the track under its persisted identity.
LEMMA ReplayOpens ==
    ASSUME NEW e, Shape(e), NEW t, NEW d,
           NEW o, o = IF t \in DOMAIN e.tracks THEN e
                      ELSE [e EXCEPT !.tracks = Put(@, t, newTrack(retained[d].label))]
    PROVE  Opened(e, o, t, d)
<1>1. CASE t \in DOMAIN e.tracks
  BY <1>1 DEF Opened
<1>2. CASE t \notin DOMAIN e.tracks
  <2> DEFINE track == newTrack(retained[d].label)
  <2>2. /\ DOMAIN track = TrackFields
        /\ track.mmsi = None /\ track.label = retained[d].label /\ track.points = <<>>
        /\ track.lastAISAt = Never /\ track.zoneEnter = <<>> /\ track.nearSince = <<>>
        /\ track.rendezAlerted = {}
    BY BareTrackFacts
  <2> HIDE DEF track
  <2>3. /\ DOMAIN o = {"tracks", "byMMSI"}
        /\ o.tracks = Put(e.tracks, t, track) /\ o.byMMSI = e.byMMSI
    BY <1>2 DEF Shape, track
  <2>4. /\ DOMAIN o.tracks = DOMAIN e.tracks \cup {t}
        /\ o.tracks[t] = track
        /\ \A u \in DOMAIN e.tracks : o.tracks[u] = e.tracks[u]
    BY <1>2, <2>3 DEF Put
  <2>5. Shape(o)
    BY <2>2, <2>3, <2>4 DEF Shape
  <2> QED
    BY <1>2, <2>2, <2>3, <2>4, <2>5 DEF Opened
<1> QED
  BY <1>1, <1>2

\* What absorbPointLocked leaves of the other tracks and of the rules' state.
Absorbed(o, a, t, d) ==
    LET m == IF o.tracks[t].mmsi # None THEN o.tracks[t].mmsi
             ELSE IF retained[d].ais # None THEN retained[d].ais ELSE retained[d].mmsi
    IN  /\ Shape(a)
        /\ DOMAIN a.tracks = DOMAIN o.tracks
        /\ \A u \in DOMAIN o.tracks : u # t => a.tracks[u] = o.tracks[u]
        /\ a.tracks[t].mmsi = m
        /\ a.tracks[t].points = Kept(Append(o.tracks[t].points, d))
        /\ a.tracks[t].label = MaxClassification(o.tracks[t].label, retained[d].label)
        /\ a.tracks[t].darkAlerted =
              (o.tracks[t].darkAlerted /\ (retained[d].ais = None \/ retained[d].at < o.tracks[t].lastAISAt))
        /\ a.tracks[t].lastAISAt = LastAISAt(o.tracks[t].lastAISAt, retained[d])
        /\ a.tracks[t].zoneEnter = o.tracks[t].zoneEnter
        /\ a.tracks[t].nearSince = o.tracks[t].nearSince
        /\ a.tracks[t].rendezAlerted = o.tracks[t].rendezAlerted
        /\ a.byMMSI = IF m = o.tracks[t].mmsi THEN o.byMMSI ELSE Put(o.byMMSI, m, t)

LEMMA AbsorbPointAbsorbs ==
    ASSUME NEW o, Shape(o), NEW t \in DOMAIN o.tracks, NEW d
    PROVE  Absorbed(o, AbsorbPoint(o, t, d), t, d)
<1> DEFINE s == retained[d]
           track == o.tracks[t]
           m == IF track.mmsi # None THEN track.mmsi ELSE IF s.ais # None THEN s.ais ELSE s.mmsi
           points == Kept(Append(track.points, d))
           label == MaxClassification(track.label, s.label)
           dark == track.darkAlerted /\ (s.ais = None \/ s.at < track.lastAISAt)
           at == LastAISAt(track.lastAISAt, s)
           new == [track EXCEPT !.mmsi = m, !.points = points, !.label = label,
                                !.darkAlerted = dark, !.lastAISAt = at]
           index == IF m = track.mmsi THEN o.byMMSI ELSE Put(o.byMMSI, m, t)
           a == [tracks |-> Put(o.tracks, t, new), byMMSI |-> index]
<1>1. DOMAIN track = TrackFields
  BY DEF Shape
<1>2. new = [track EXCEPT !.mmsi = m, !.points = Kept(Append(@, d)),
                          !.label = MaxClassification(@, s.label),
                          !.darkAlerted = @ /\ (s.ais = None \/ s.at < track.lastAISAt),
                          !.lastAISAt = LastAISAt(@, s)]
  BY <1>1 DEF TrackFields
<1>3. AbsorbPoint(o, t, d) = a
  BY <1>2 DEF AbsorbPoint
<1>4. /\ DOMAIN new = TrackFields
      /\ new.mmsi = m /\ new.points = points /\ new.label = label
      /\ new.darkAlerted = dark /\ new.lastAISAt = at
      /\ new.zoneEnter = track.zoneEnter /\ new.nearSince = track.nearSince
      /\ new.rendezAlerted = track.rendezAlerted
  <2> HIDE DEF m, points, label, dark, at, track
  <2> QED
    BY <1>1 DEF TrackFields
<1> HIDE DEF new
<1>5. /\ DOMAIN a = {"tracks", "byMMSI"}
      /\ a.tracks = Put(o.tracks, t, new) /\ a.byMMSI = index
  OBVIOUS
<1> HIDE DEF a
<1>6. /\ DOMAIN a.tracks = DOMAIN o.tracks
      /\ a.tracks[t] = new
      /\ \A u \in DOMAIN o.tracks : u # t => a.tracks[u] = o.tracks[u]
  BY <1>5 DEF Put
<1>7. Shape(a)
  BY <1>4, <1>5, <1>6 DEF Shape
<1> QED
  BY <1>3, <1>4, <1>5, <1>6, <1>7 DEF Absorbed

\* The rules' state changes nothing but zone entries and proximities.
Ruled(a, r) ==
    /\ Shape(r)
    /\ DOMAIN r.tracks = DOMAIN a.tracks /\ r.byMMSI = a.byMMSI
    /\ \A u \in DOMAIN a.tracks :
          Same(r.tracks[u], a.tracks[u]) /\ r.tracks[u].rendezAlerted = a.tracks[u].rendezAlerted
    /\ RuleMaps(r)

LEMMA RuleStateRules ==
    ASSUME NEW a, Shape(a), RuleMaps(a), NEW t \in DOMAIN a.tracks, NEW d
    PROVE  Ruled(a, RuleState(a, t, d))
<1> DEFINE near == Near(a, t, d)
           zones == ZonesAt(retained[d].pos)
           Of(u) == IF u = t
                    THEN [a.tracks[t] EXCEPT
                            !.zoneEnter = [z \in zones |-> IF z \in DOMAIN @ THEN @[z]
                                                           ELSE retained[d].at],
                            !.nearSince = [v \in near |-> NearSince(a, t, v, d)]]
                    ELSE IF u \in near
                    THEN [a.tracks[u] EXCEPT !.nearSince = Put(@, t, NearSince(a, t, u, d))]
                    ELSE [a.tracks[u] EXCEPT !.nearSince = Without(@, t)]
           r == [a EXCEPT !.tracks = [u \in DOMAIN a.tracks |-> Of(u)]]
<1>1. RuleState(a, t, d) = r
  BY DEF RuleState
<1>2. near \subseteq DOMAIN a.tracks \ {t} /\ zones \subseteq Range(Restricted)
  BY DEF Near, ZonesAt
<1> HIDE DEF near, zones
<1>3. ASSUME NEW u \in DOMAIN a.tracks
      PROVE  /\ DOMAIN Of(u) = TrackFields
             /\ Same(Of(u), a.tracks[u]) /\ Of(u).rendezAlerted = a.tracks[u].rendezAlerted
             /\ DOMAIN Of(u).zoneEnter \subseteq Range(Restricted)
             /\ DOMAIN Of(u).nearSince \subseteq DOMAIN a.tracks \ {u}
  <2>1. DOMAIN a.tracks[u] = TrackFields /\ DOMAIN a.tracks[t] = TrackFields
    BY DEF Shape
  <2>2. /\ DOMAIN a.tracks[u].zoneEnter \subseteq Range(Restricted)
        /\ DOMAIN a.tracks[u].nearSince \subseteq DOMAIN a.tracks \ {u}
    BY DEF RuleMaps
  <2>3. CASE u = t
    BY <1>2, <2>1, <2>3 DEF TrackFields, Same
  <2>4. CASE u # t /\ u \in near
    BY <1>2, <2>1, <2>2, <2>4 DEF TrackFields, Same, Put
  <2>5. CASE u # t /\ u \notin near
    BY <1>2, <2>1, <2>2, <2>5 DEF TrackFields, Same, Without, Restrict
  <2> QED
    BY <2>3, <2>4, <2>5
<1> HIDE DEF Of
<1>4. /\ DOMAIN r = {"tracks", "byMMSI"} /\ r.byMMSI = a.byMMSI
      /\ DOMAIN r.tracks = DOMAIN a.tracks
      /\ \A u \in DOMAIN a.tracks : r.tracks[u] = Of(u)
  BY DEF Shape
<1> HIDE DEF r
<1>5. Shape(r)
  BY <1>3, <1>4 DEF Shape
<1>6. RuleMaps(r)
  BY <1>3, <1>4 DEF RuleMaps
<1> QED
  BY <1>1, <1>3, <1>4, <1>5, <1>6 DEF Ruled

\* The labels of tracks are ranks.
Ranked(e) == \A u \in DOMAIN e.tracks : e.tracks[u].label \in 0..3

\* The alerts set latches and raise the label of the reporting track.
Latched(r, f, t, met) ==
    /\ Shape(f)
    /\ DOMAIN f.tracks = DOMAIN r.tracks /\ f.byMMSI = r.byMMSI
    /\ RuleMaps(f)
    /\ \A u \in DOMAIN r.tracks \ {t} : Same(f.tracks[u], r.tracks[u])
    /\ f.tracks[t].mmsi = r.tracks[t].mmsi /\ f.tracks[t].points = r.tracks[t].points
    /\ f.tracks[t].lastAISAt = r.tracks[t].lastAISAt
    /\ f.tracks[t].darkAlerted = r.tracks[t].darkAlerted
    /\ f.tracks[t].label \in 0..3 /\ r.tracks[t].label <= f.tracks[t].label
    /\ f.tracks[t].rendezAlerted = r.tracks[t].rendezAlerted \cup met
    /\ \A u \in DOMAIN r.tracks \ {t} :
          f.tracks[u].rendezAlerted = r.tracks[u].rendezAlerted \cup (IF u \in met THEN {t} ELSE {})

LEMMA AlertedLatches ==
    ASSUME NEW r, Shape(r), RuleMaps(r), Ranked(r), NEW t \in DOMAIN r.tracks
    PROVE  Latched(r, Alerted(r, t), t, Meeting(r.tracks[t]))
<1> DEFINE met == Meeting(r.tracks[t])
           labels == {r.tracks[t].label} \cup {r.tracks[v].label : v \in met}
           top == Max(labels)
           loiter == r.tracks[t].loiterAlerted \cup Loitering(r.tracks[t])
           Of(u) == IF u = t
                    THEN [r.tracks[t] EXCEPT !.loiterAlerted = loiter,
                                             !.rendezAlerted = @ \cup met,
                                             !.label = top]
                    ELSE IF u \in met THEN [r.tracks[u] EXCEPT !.rendezAlerted = @ \cup {t}]
                    ELSE r.tracks[u]
           f == [r EXCEPT !.tracks = [u \in DOMAIN r.tracks |-> Of(u)]]
<1>1. DOMAIN r.tracks[t] = TrackFields
  BY DEF Shape
<1>2. Alerted(r, t) = f
  BY <1>1 DEF Alerted, TrackFields
<1>3. met \subseteq DOMAIN r.tracks \ {t}
  BY DEF Meeting, RuleMaps
<1>4. labels \in SUBSET (0..3) /\ r.tracks[t].label \in labels
  BY <1>3 DEF Ranked
<1>5. top \in 0..3 /\ r.tracks[t].label <= top
  <2> HIDE DEF labels
  <2>1. top \in labels /\ \A y \in labels : top >= y
    BY <1>4, MaxLabel
  <2> QED
    BY <1>4, <2>1
<1> HIDE DEF met, top, loiter
<1>6. ASSUME NEW u \in DOMAIN r.tracks
      PROVE  /\ DOMAIN Of(u) = TrackFields
             /\ Of(u).zoneEnter = r.tracks[u].zoneEnter /\ Of(u).nearSince = r.tracks[u].nearSince
             /\ u # t => /\ Same(Of(u), r.tracks[u])
                         /\ Of(u).rendezAlerted =
                               r.tracks[u].rendezAlerted \cup (IF u \in met THEN {t} ELSE {})
             /\ u = t => /\ Of(u).mmsi = r.tracks[t].mmsi /\ Of(u).points = r.tracks[t].points
                         /\ Of(u).lastAISAt = r.tracks[t].lastAISAt
                         /\ Of(u).darkAlerted = r.tracks[t].darkAlerted
                         /\ Of(u).label = top
                         /\ Of(u).rendezAlerted = r.tracks[t].rendezAlerted \cup met
  <2>1. DOMAIN r.tracks[u] = TrackFields
    BY DEF Shape
  <2>2. CASE u = t
    BY <1>1, <2>2 DEF TrackFields
  <2>3. CASE u # t
    BY <2>1, <2>3 DEF TrackFields, Same
  <2> QED
    BY <2>2, <2>3
<1> HIDE DEF Of
<1>7. /\ DOMAIN f = {"tracks", "byMMSI"} /\ f.byMMSI = r.byMMSI
      /\ DOMAIN f.tracks = DOMAIN r.tracks
      /\ \A u \in DOMAIN r.tracks : f.tracks[u] = Of(u)
  BY DEF Shape
<1> HIDE DEF f
<1>8. Shape(f)
  BY <1>6, <1>7 DEF Shape
<1>9. RuleMaps(f)
  BY <1>6, <1>7 DEF RuleMaps
<1> QED
  BY <1>2, <1>5, <1>6, <1>7, <1>8, <1>9 DEF Latched, met

\* The latches of a rendezvous before the alerts.
Unlatched(e, r, t) ==
    /\ \A u \in DOMAIN e.tracks : r.tracks[u].rendezAlerted = e.tracks[u].rendezAlerted
    /\ t \notin DOMAIN e.tracks => r.tracks[t].rendezAlerted = {}

\* Opening the track, absorbing the point and the rules' state fuse the detection.
LEMMA StagesFuse ==
    ASSUME NEW e, Shape(e), RuleMaps(e), Ranked(e), NEW t, NEW d, retained[d] \in Sightings,
           NEW o, Opened(e, o, t, d), NEW a, Absorbed(o, a, t, d), NEW r, Ruled(a, r)
    PROVE  Fused(e, r, t, d) /\ Ranked(r) /\ Unlatched(e, r, t)
<1> DEFINE s == retained[d]
<1>1. /\ DOMAIN o.tracks = DOMAIN e.tracks \cup {t}
      /\ \A u \in DOMAIN e.tracks : o.tracks[u] = e.tracks[u]
      /\ t \in DOMAIN e.tracks => o.byMMSI = e.byMMSI
      /\ t \notin DOMAIN e.tracks =>
            /\ o.tracks[t].points = <<>> /\ o.tracks[t].label = s.label
            /\ o.tracks[t].lastAISAt = Never /\ o.tracks[t].rendezAlerted = {}
  BY DEF Opened
<1>2. /\ DOMAIN a.tracks = DOMAIN o.tracks
      /\ \A u \in DOMAIN o.tracks : u # t => a.tracks[u] = o.tracks[u]
      /\ a.tracks[t].points = Kept(Append(o.tracks[t].points, d))
      /\ a.tracks[t].label = MaxClassification(o.tracks[t].label, s.label)
      /\ a.tracks[t].lastAISAt = LastAISAt(o.tracks[t].lastAISAt, s)
      /\ a.tracks[t].rendezAlerted = o.tracks[t].rendezAlerted
  BY DEF Absorbed
<1>3. /\ Shape(r) /\ RuleMaps(r)
      /\ DOMAIN r.tracks = DOMAIN a.tracks /\ r.byMMSI = a.byMMSI
      /\ \A u \in DOMAIN a.tracks :
            Same(r.tracks[u], a.tracks[u]) /\ r.tracks[u].rendezAlerted = a.tracks[u].rendezAlerted
  BY DEF Ruled
<1>4. s.label \in 0..3
  BY SightingsAssumption
<1>5. /\ r.tracks[t].label \in 0..3 /\ s.label <= r.tracks[t].label
      /\ t \in DOMAIN e.tracks => e.tracks[t].label <= r.tracks[t].label
  <2> DEFINE k == o.tracks[t].label
  <2>1. k \in 0..3 /\ (t \in DOMAIN e.tracks => k = e.tracks[t].label)
    BY <1>1, <1>4 DEF Ranked
  <2> HIDE DEF k, s
  <2>2. {k, s.label} \in SUBSET (0..3) /\ {k, s.label} # {}
    BY <1>4, <2>1
  <2>3. Max({k, s.label}) \in {k, s.label} /\ \A y \in {k, s.label} : Max({k, s.label}) >= y
    BY <2>2, MaxLabel
  <2>4. r.tracks[t].label = Max({k, s.label})
    BY <1>1, <1>2, <1>3 DEF Same, MaxClassification, k, s
  <2> QED
    BY <1>4, <2>1, <2>3, <2>4 DEF s
<1>6. Grown(e, r, t, d)
  <2>1. t \in DOMAIN e.tracks /\ s.ais = None =>
           (e.tracks[t].darkAlerted => r.tracks[t].darkAlerted)
    BY <1>1, <1>2, <1>3 DEF Absorbed, Same
  <2>2. r.tracks[t].points = Kept(Append(PointsIn(e, t), d))
    BY <1>1, <1>2, <1>3 DEF Same, PointsIn
  <2>3. r.tracks[t].lastAISAt = LastAISAt(AISAt(e, t), retained[d])
    BY <1>1, <1>2, <1>3 DEF Same, AISAt
  <2> QED
    BY <1>5, <2>1, <2>2, <2>3 DEF Grown
<1>7. \A u \in DOMAIN e.tracks \ {t} : Same(r.tracks[u], e.tracks[u])
  BY <1>1, <1>2, <1>3 DEF Same
<1>8. \A m \in DOMAIN r.byMMSI :
         r.byMMSI[m] = t \/ (m \in DOMAIN e.byMMSI /\ r.byMMSI[m] = e.byMMSI[m])
  <2>1. \A m \in DOMAIN o.byMMSI :
           o.byMMSI[m] = t \/ (m \in DOMAIN e.byMMSI /\ o.byMMSI[m] = e.byMMSI[m])
    BY DEF Opened, Put
  <2>2. \A m \in DOMAIN a.byMMSI :
           a.byMMSI[m] = t \/ (m \in DOMAIN o.byMMSI /\ a.byMMSI[m] = o.byMMSI[m])
    BY DEF Absorbed, Put
  <2> QED
    BY <1>3, <2>1, <2>2
<1>9. Bound(e, r, t, d)
  <2>1. r.tracks[t].mmsi = a.tracks[t].mmsi /\ r.byMMSI = a.byMMSI
    BY <1>1, <1>2, <1>3 DEF Same
  <2>2. CASE t \in DOMAIN e.tracks
    BY <1>1, <2>1, <2>2 DEF Bound, Names, Known, Absorbed
  <2>3. CASE t \notin DOMAIN e.tracks
    BY <1>1, <2>1, <2>3 DEF Bound, Names, Known, Absorbed, Opened
  <2> QED
    BY <2>2, <2>3
<1>10. Ranked(r)
  BY <1>1, <1>2, <1>3, <1>5 DEF Ranked, Same
<1>11. Unlatched(e, r, t)
  BY <1>1, <1>2, <1>3 DEF Unlatched
<1> QED
  BY <1>1, <1>2, <1>3, <1>6, <1>7, <1>8, <1>9, <1>10, <1>11 DEF Fused

\* The alerts keep it fused.
LEMMA LatchesFuse ==
    ASSUME NEW e, NEW t, NEW d, retained[d] \in Sightings, Ranked(e), NEW r, Fused(e, r, t, d),
           Ranked(r), NEW f, NEW met, Latched(r, f, t, met)
    PROVE  Fused(e, f, t, d)
<1>1. retained[d].label \in 0..3
  BY SightingsAssumption
<1>2. /\ DOMAIN f.tracks = DOMAIN r.tracks /\ f.byMMSI = r.byMMSI /\ RuleMaps(f) /\ Shape(f)
      /\ \A u \in DOMAIN r.tracks \ {t} : Same(f.tracks[u], r.tracks[u])
      /\ f.tracks[t].mmsi = r.tracks[t].mmsi /\ f.tracks[t].points = r.tracks[t].points
      /\ f.tracks[t].lastAISAt = r.tracks[t].lastAISAt
      /\ f.tracks[t].darkAlerted = r.tracks[t].darkAlerted
      /\ f.tracks[t].label \in 0..3 /\ r.tracks[t].label <= f.tracks[t].label
  BY DEF Latched
<1>3. Grown(e, f, t, d)
  BY <1>1, <1>2 DEF Fused, Grown, Ranked
<1>4. Bound(e, f, t, d)
  BY <1>2 DEF Fused, Bound
<1>5. \A u \in DOMAIN e.tracks \ {t} : Same(f.tracks[u], e.tracks[u])
  BY <1>2 DEF Fused, Same
<1> QED
  BY <1>2, <1>3, <1>4, <1>5 DEF Fused

-----------------------------------------------------------------------------
(* The anomalies of one Ingest                                             *)

\* Two sequences that follow one another, and three.
Joined(c, p, q) == c = p \o q
JoinedThree(b, X, B, C) == b = X \o B \o C

PairOf(c, S, p, q) ==
    /\ c \in Seq(S) /\ Len(c) = Len(p) + Len(q)
    /\ \A n \in 1..Len(p) : c[n] = p[n]
    /\ \A n \in 1..Len(q) : c[n + Len(p)] = q[n]

\* The places of two sequences that follow one another.
LEMMA TwoParts ==
    ASSUME NEW S, NEW p \in Seq(S), NEW q \in Seq(S), NEW c, Joined(c, p, q)
    PROVE  PairOf(c, S, p, q)
  BY DEF Joined, PairOf

PartsOf(b, S, X, k, B, j, C) ==
    /\ b \in Seq(S) /\ DOMAIN b = 1..(1 + k + j)
    /\ b[1] = X[1]
    /\ \A n \in 1..k : b[n + 1] = B[n]
    /\ \A n \in 1..j : b[n + 1 + k] = C[n]

\* The places of three, the first of which has one.
LEMMA ThreeParts ==
    ASSUME NEW S, NEW X \in Seq(S), Len(X) = 1, NEW k \in Nat, NEW j \in Nat,
           NEW B \in [1..k -> S], NEW C \in [1..j -> S],
           NEW b, JoinedThree(b, X, B, C)
    PROVE  PartsOf(b, S, X, k, B, j, C)
<1>1. B \in Seq(S) /\ Len(B) = k /\ C \in Seq(S) /\ Len(C) = j
  OBVIOUS
<1>2. PICK a : Joined(a, X, B)
  BY DEF Joined
<1>3. PairOf(a, S, X, B)
  BY <1>1, <1>2, TwoParts
<1>4. /\ a \in Seq(S) /\ Len(a) = 1 + k /\ a[1] = X[1]
      /\ \A n \in 1..k : a[n + 1] = B[n]
  BY <1>1, <1>3 DEF PairOf
<1>5. Joined(b, a, C)
  BY <1>2 DEF Joined, JoinedThree
<1>6. PairOf(b, S, a, C)
  BY <1>1, <1>4, <1>5, TwoParts
<1>7. /\ b \in Seq(S) /\ Len(b) = 1 + k + j
      /\ \A n \in 1..(1 + k) : b[n] = a[n]
      /\ \A n \in 1..j : b[n + (1 + k)] = C[n]
  BY <1>1, <1>4, <1>6 DEF PairOf
<1>8. DOMAIN b = 1..(1 + k + j)
  BY <1>7
<1>9. \A n \in 1..k : b[n + 1] = B[n]
  BY <1>4, <1>7
<1>10. \A n \in 1..j : b[n + 1 + k] = C[n]
  <2>1. \A n \in 1..j : n + 1 + k = n + (1 + k)
    OBVIOUS
  <2> QED
    BY <1>7, <2>1
<1>11. b[1] = X[1]
  <2>1. 1 \in 1..(1 + k)
    OBVIOUS
  <2> QED
    BY <1>4, <1>7, <2>1
<1> QED
  BY <1>7, <1>8, <1>9, <1>10, <1>11 DEF PartsOf

\* The tracks met, in some order, each once.
LEMMA MeetingOrders ==
    ASSUME NEW S, IsFiniteSet(S), NEW meetings \in SetToSeqs(S)
    PROVE  \E j \in Nat : /\ meetings \in [1..j -> S]
                          /\ \A m, n \in 1..j : m # n => meetings[m] # meetings[n]
  BY FS_CardinalityType DEF SetToSeqs

BatchOK(r, t, d, b, met) ==
    /\ b \in Seq(Anomaly \cup {None})
    /\ \A n \in DOMAIN b : b[n] # None =>
          /\ b[n].track = t /\ b[n].stamp = <<"ingest", d>> /\ b[n].kind # "dark-vessel"
          /\ r.tracks[t].label <= b[n].label
          /\ b[n].kind = "rendezvous" =>
                b[n].subject \in met /\ r.tracks[b[n].subject].label <= b[n].label
    /\ \A m, n \in DOMAIN b :
          /\ b[m] # None /\ b[n] # None
          /\ b[m].kind = "rendezvous" /\ b[n].kind = "rendezvous" /\ b[m].subject = b[n].subject
          => m = n

\* An anomaly of the reporting track.
LEMMA Emitted ==
    ASSUME NEW kind \in {"speed-outlier", "loitering", "rendezvous"}, NEW t \in Detections,
           NEW subject \in Detections \cup Range(Restricted) \cup {None}, NEW label \in 0..3,
           NEW d \in Nat,
           NEW a, a = [kind |-> kind, track |-> t, subject |-> subject, label |-> label,
                       stamp |-> <<"ingest", d>>]
    PROVE  /\ a \in Anomaly
           /\ a.kind = kind /\ a.track = t /\ a.subject = subject /\ a.label = label
           /\ a.stamp = <<"ingest", d>>
  BY DEF Anomaly

LEMMA AlertsBatch ==
    ASSUME NEW r, RuleMaps(r), Ranked(r), DOMAIN r.tracks \subseteq Detections,
           NEW t \in DOMAIN r.tracks, NEW d \in Nat,
           NEW meetings \in SetToSeqs(Meeting(r.tracks[t]))
    PROVE  BatchOK(r, t, d, Alerts(r, t, d, meetings), Meeting(r.tracks[t]))
<1> DEFINE met == Meeting(r.tracks[t])
           label == r.tracks[t].label
           emit(kind, subject, rank) ==
              [kind |-> kind, track |-> t, subject |-> subject, label |-> rank,
               stamp |-> <<"ingest", d>>]
           raised(n) == Max({label} \cup {r.tracks[meetings[m]].label : m \in 1..n})
           x == IF Speeding(r.tracks[t]) THEN emit("speed-outlier", None, label) ELSE None
           OfZone(n) == IF Restricted[n] \in Loitering(r.tracks[t])
                        THEN emit("loitering", Restricted[n], label) ELSE None
           OfMeeting(n) == emit("rendezvous", meetings[n], raised(n))
           B == [n \in DOMAIN Restricted |-> OfZone(n)]
           C == [n \in DOMAIN meetings |-> OfMeeting(n)]
           S == Anomaly \cup {None}
           X == <<x>>
           b == X \o B \o C
<1>1. Alerts(r, t, d, meetings) = b
  BY DEF Alerts
<1>2. met \subseteq DOMAIN r.tracks \ {t} /\ t \in Detections /\ label \in 0..3
  BY DEF Meeting, RuleMaps, Ranked
<1>3. IsFiniteSet(met)
  <2>1. MaxDetections \in Int
    BY BoundsAssumption
  <2>2. IsFiniteSet(Detections)
    BY <2>1, FS_Interval DEF Detections
  <2>3. met \in SUBSET Detections
    BY <1>2
  <2> QED
    BY <2>2, <2>3, FS_Subset
<1>4. PICK j \in Nat : /\ meetings \in [1..j -> met]
                       /\ \A m, n \in 1..j : m # n => meetings[m] # meetings[n]
  BY <1>3, MeetingOrders
<1>5. PICK k \in Nat : DOMAIN Restricted = 1..k
  BY ConfigAssumption
<1> HIDE DEF met
<1>6. x \in S /\ (x # None => x.track = t /\ x.stamp = <<"ingest", d>> /\ x.kind = "speed-outlier"
                              /\ x.label = label)
  <2> DEFINE a == emit("speed-outlier", None, label)
  <2>1. /\ a \in Anomaly /\ a.kind = "speed-outlier" /\ a.track = t /\ a.label = label
        /\ a.stamp = <<"ingest", d>>
    BY <1>2, Emitted
  <2> HIDE DEF a
  <2>2. x = a \/ x = None
    BY DEF a
  <2> HIDE DEF x
  <2> QED
    BY <2>1, <2>2
<1>7. ASSUME NEW n \in 1..k
      PROVE  /\ OfZone(n) \in S
             /\ OfZone(n) # None =>
                   /\ OfZone(n).track = t /\ OfZone(n).stamp = <<"ingest", d>>
                   /\ OfZone(n).kind = "loitering" /\ OfZone(n).label = label
  <2> DEFINE a == emit("loitering", Restricted[n], label)
  <2>0. Restricted[n] \in Range(Restricted)
    BY <1>5 DEF Range
  <2>1. /\ a \in Anomaly /\ a.kind = "loitering" /\ a.track = t /\ a.label = label
        /\ a.stamp = <<"ingest", d>>
    BY <1>2, <2>0, Emitted
  <2> HIDE DEF a
  <2>2. OfZone(n) = a \/ OfZone(n) = None
    BY DEF a
  <2> HIDE DEF OfZone
  <2> QED
    BY <2>1, <2>2
<1>8. ASSUME NEW n \in 1..j
      PROVE  /\ OfMeeting(n) \in S
             /\ OfMeeting(n).track = t /\ OfMeeting(n).stamp = <<"ingest", d>>
             /\ OfMeeting(n).kind = "rendezvous" /\ OfMeeting(n).subject = meetings[n]
             /\ meetings[n] \in met
             /\ label <= OfMeeting(n).label
             /\ r.tracks[meetings[n]].label <= OfMeeting(n).label
  <2> DEFINE labels == {label} \cup {r.tracks[meetings[m]].label : m \in 1..n}
             a == emit("rendezvous", meetings[n], raised(n))
  <2>1. \A m \in 1..n : meetings[m] \in DOMAIN r.tracks
    BY <1>2, <1>4
  <2>2. labels \in SUBSET (0..3) /\ label \in labels /\ r.tracks[meetings[n]].label \in labels
    BY <1>2, <2>1 DEF Ranked
  <2> HIDE DEF labels
  <2>3. raised(n) \in labels /\ \A y \in labels : raised(n) >= y
    BY <2>2, MaxLabel DEF labels
  <2> HIDE DEF raised
  <2>4. raised(n) \in 0..3 /\ label <= raised(n) /\ r.tracks[meetings[n]].label <= raised(n)
    BY <2>2, <2>3
  <2>5. meetings[n] \in met /\ meetings[n] \in Detections
    BY <1>2, <1>4
  <2>6. /\ a \in Anomaly /\ a.kind = "rendezvous" /\ a.track = t /\ a.subject = meetings[n]
        /\ a.label = raised(n) /\ a.stamp = <<"ingest", d>>
    BY <1>2, <2>4, <2>5, Emitted
  <2>7. OfMeeting(n) = a
    OBVIOUS
  <2> HIDE DEF a, OfMeeting
  <2> QED
    BY <2>4, <2>5, <2>6, <2>7
<1> HIDE DEF x, OfZone, OfMeeting, S
<1>9. B \in [1..k -> S] /\ C \in [1..j -> S]
  BY <1>4, <1>5, <1>7, <1>8
<1>10. (\A n \in 1..k : B[n] = OfZone(n)) /\ (\A n \in 1..j : C[n] = OfMeeting(n))
  BY <1>4, <1>5
<1>11. X \in Seq(S) /\ Len(X) = 1 /\ X[1] = x
  BY <1>6
<1> HIDE DEF B, C, X
<1>12. /\ b \in Seq(S) /\ DOMAIN b = 1..(1 + k + j)
       /\ b[1] = x
       /\ \A n \in 1..k : b[n + 1] = B[n]
       /\ \A n \in 1..j : b[n + 1 + k] = C[n]
  <2>1. JoinedThree(b, X, B, C)
    BY DEF JoinedThree
  <2>2. PartsOf(b, S, X, k, B, j, C)
    BY <1>9, <1>11, <2>1, ThreeParts
  <2> QED
    BY <1>11, <2>2 DEF PartsOf
<1> HIDE DEF b
<1>13. ASSUME NEW n \in DOMAIN b
       PROVE  \/ b[n] = x
              \/ \E i \in 1..k : b[n] = OfZone(i)
              \/ \E i \in 1..j : b[n] = OfMeeting(i) /\ n = i + 1 + k
  <2>1. CASE n = 1
    BY <1>12, <2>1
  <2>2. CASE n \in 2..(k + 1)
    <3>1. n - 1 \in 1..k /\ (n - 1) + 1 = n
      BY <2>2
    <3> QED
      BY <1>10, <1>12, <3>1
  <2>3. CASE n \in (k + 2)..(1 + k + j)
    <3>1. n - 1 - k \in 1..j /\ (n - 1 - k) + 1 + k = n
      BY <2>3
    <3> QED
      BY <1>10, <1>12, <3>1
  <2> QED
    BY <1>12, <2>1, <2>2, <2>3
<1>14. ASSUME NEW n \in DOMAIN b, b[n] # None
       PROVE  /\ b[n].track = t /\ b[n].stamp = <<"ingest", d>> /\ b[n].kind # "dark-vessel"
              /\ label <= b[n].label
              /\ b[n].kind = "rendezvous" =>
                    /\ b[n].subject \in met /\ r.tracks[b[n].subject].label <= b[n].label
                    /\ \E i \in 1..j : b[n].subject = meetings[i] /\ n = i + 1 + k
  <2>1. label <= label
    BY <1>2
  <2> HIDE DEF label
  <2>2. CASE b[n] = x
    BY <1>6, <1>14, <2>1, <2>2
  <2>3. CASE \E i \in 1..k : b[n] = OfZone(i)
    BY <1>7, <1>14, <2>1, <2>3
  <2>4. CASE \E i \in 1..j : b[n] = OfMeeting(i) /\ n = i + 1 + k
    BY <1>8, <2>4
  <2> QED
    BY <1>13, <2>2, <2>3, <2>4
<1>15. ASSUME NEW m \in DOMAIN b, NEW n \in DOMAIN b, b[m] # None, b[n] # None,
              b[m].kind = "rendezvous", b[n].kind = "rendezvous", b[m].subject = b[n].subject
       PROVE  m = n
  <2>1. PICK i \in 1..j : b[m].subject = meetings[i] /\ m = i + 1 + k
    BY <1>14, <1>15
  <2>2. PICK l \in 1..j : b[n].subject = meetings[l] /\ n = l + 1 + k
    BY <1>14, <1>15
  <2> QED
    BY <1>4, <1>15, <2>1, <2>2
<1> QED
  BY <1>1, <1>12, <1>14, <1>15 DEF BatchOK, S, met

-----------------------------------------------------------------------------
(* The points of a track                                                   *)

\* The new points are the old ones, or all but the first, and the detection.
PointsGrow(new, points, d) ==
    \E k \in {0, 1} :
        /\ Len(new) = Len(points) + 1 - k
        /\ k = 1 => Len(new) = PointCap
        /\ new[Len(new)] = d
        /\ \A n \in 1..(Len(new) - 1) : new[n] = points[n + k]

KeptOf(new, points, d) == new = Kept(Append(points, d))

LEMMA KeptGrows ==
    ASSUME NEW S, NEW points \in Seq(S), Len(points) <= PointCap, NEW d \in S,
           NEW new, KeptOf(new, points, d)
    PROVE  /\ new \in Seq(S) /\ new # <<>> /\ Len(new) <= PointCap
           /\ PointsGrow(new, points, d)
<1> DEFINE all == Append(points, d)
<1>1. /\ all \in Seq(S) /\ Len(all) = Len(points) + 1 /\ all[Len(points) + 1] = d
      /\ \A n \in 1..Len(points) : all[n] = points[n]
  OBVIOUS
<1>2. PointCap \in Nat \ {0} /\ Len(points) \in Nat
  BY BoundsAssumption
<1>3. new = IF Len(all) > PointCap THEN Tail(all) ELSE all
  BY DEF KeptOf, Kept
<1> HIDE DEF all
<1>4. CASE Len(all) > PointCap
  <2>1. Len(points) = PointCap /\ Len(all) = PointCap + 1
    BY <1>1, <1>2, <1>4
  <2>2. /\ new \in Seq(S) /\ Len(new) = PointCap
        /\ \A n \in 1..PointCap : new[n] = all[n + 1]
    BY <1>1, <1>2, <1>3, <1>4, <2>1
  <2>3. new[PointCap] = d
    BY <1>1, <1>2, <2>1, <2>2
  <2>4. \A n \in 1..(PointCap - 1) : new[n] = points[n + 1]
    BY <1>1, <1>2, <2>1, <2>2
  <2>5. PointsGrow(new, points, d)
    BY <1>2, <2>1, <2>2, <2>3, <2>4 DEF PointsGrow
  <2> QED
    BY <1>2, <2>2, <2>5
<1>5. CASE ~(Len(all) > PointCap)
  <2>1. new = all
    BY <1>3, <1>5
  <2>2. \A n \in 1..Len(points) : new[n] = points[n + 0]
    BY <1>1, <1>2, <2>1
  <2>3. PointsGrow(new, points, d)
    BY <1>1, <1>2, <2>1, <2>2 DEF PointsGrow
  <2> QED
    BY <1>1, <1>2, <1>5, <2>1, <2>3
<1> QED
  BY <1>4, <1>5

\* What is among them.
LEMMA GrownRange ==
    ASSUME NEW S, NEW points \in Seq(S), NEW new \in Seq(S), Len(points) <= PointCap,
           Len(new) <= PointCap, NEW d, PointsGrow(new, points, d)
    PROVE  /\ Range(new) \subseteq Range(points) \cup {d}
           /\ d \in Range(new)
           /\ Range(points) \subseteq Range(new) \/ Len(new) = PointCap
           /\ Len(points) = PointCap => Len(new) = PointCap
<1>1. PICK k \in {0, 1} :
        /\ Len(new) = Len(points) + 1 - k
        /\ k = 1 => Len(new) = PointCap
        /\ new[Len(new)] = d
        /\ \A n \in 1..(Len(new) - 1) : new[n] = points[n + k]
  BY DEF PointsGrow
<1>2. Len(points) \in Nat /\ Len(new) \in Nat /\ DOMAIN points = 1..Len(points)
      /\ DOMAIN new = 1..Len(new) /\ PointCap \in Nat \ {0}
  BY BoundsAssumption
<1>3. Len(new) \in DOMAIN new
  BY <1>1, <1>2
<1>4. ASSUME NEW n \in DOMAIN new
      PROVE  new[n] \in Range(points) \cup {d}
  <2>1. CASE n = Len(new)
    BY <1>1, <2>1
  <2>2. CASE n # Len(new)
    <3>1. n \in 1..(Len(new) - 1) /\ n + k \in DOMAIN points
      BY <1>1, <1>2, <2>2
    <3> QED
      BY <1>1, <3>1 DEF Range
  <2> QED
    BY <2>1, <2>2
<1> DEFINE Keeps == /\ Range(points) \subseteq Range(new) \/ Len(new) = PointCap
                    /\ Len(points) = PointCap => Len(new) = PointCap
<1>5. ASSUME k = 0 PROVE Keeps
  <2>1. \A n \in DOMAIN points : n \in DOMAIN new /\ new[n] = points[n]
    BY <1>1, <1>2, <1>5
  <2>2. Range(points) \subseteq Range(new)
    BY <2>1 DEF Range
  <2>3. Len(new) = Len(points) + 1 - k
    BY <1>1
  <2>4. Len(new) = Len(points) + 1
    BY <1>2, <1>5, <2>3
  <2>5. PICK cap \in Nat : cap = PointCap
    BY <1>2
  <2>6. PICK old \in Nat : old = Len(points)
    BY <1>2
  <2>7. old + 1 <= cap
    BY <2>4, <2>5, <2>6
  <2>8. old # cap
    BY <2>7
  <2> QED
    BY <2>2, <2>5, <2>6, <2>8
<1>6. ASSUME k = 1 PROVE Keeps
  BY <1>1, <1>6
<1>7. Range(new) \subseteq Range(points) \cup {d} /\ d \in Range(new)
  BY <1>1, <1>3, <1>4 DEF Range
<1> QED
  BY <1>1, <1>5, <1>6, <1>7

-----------------------------------------------------------------------------
(* The type of the state                                                   *)

Calls == {"admitted", "fused", "snapshot"}

\* The tables, the clock and the process.
TableInv ==
    /\ now \in 0..MaxTime
    /\ retained \in Seq(Sightings) /\ Len(retained) <= MaxDetections
    /\ process \in {"down", "replaying", "serving"}
    /\ pending \subseteq DOMAIN associations
    /\ process # "replaying" => pending = {}
    /\ crashes \in 0..MaxCrashes
    /\ associations \in Seq([track : Nat, det : Nat])
    /\ \A n \in DOMAIN associations :
          associations[n].track \in DOMAIN retained /\ associations[n].det \in DOMAIN retained
    /\ DOMAIN rows \subseteq DOMAIN retained
    /\ anomalies \subseteq Anomaly /\ scan \subseteq Anomaly

\* An engine whose tracks are made of the detections in D.
TracksOver(e, D) ==
    /\ Shape(e) /\ RuleMaps(e) /\ Ranked(e)
    /\ DOMAIN e.tracks \subseteq D
    /\ \A t \in DOMAIN e.tracks :
          /\ e.tracks[t].points \in Seq(Nat) /\ e.tracks[t].points # <<>>
          /\ Len(e.tracks[t].points) <= PointCap
          /\ Range(e.tracks[t].points) \subseteq D
          /\ e.tracks[t].lastAISAt \in Int
    /\ \A m \in DOMAIN e.byMMSI : e.byMMSI[m] \in DOMAIN e.tracks

EngineInv ==
    /\ TracksOver(engine, DOMAIN retained)
    /\ process = "down" => engine = EmptyEngine

\* Only a serving process has calls, and a call that has fused names its track.
CallInv ==
    /\ DOMAIN call = Handlers
    /\ \A h \in Handlers : call[h] # None =>
          /\ process = "serving"
          /\ call[h].phase \in Calls /\ call[h].det \in DOMAIN retained
          /\ call[h].phase # "admitted" =>
                /\ call[h].track \in DOMAIN engine.tracks
                /\ call[h].batch \in Seq(Anomaly \cup {None})

Core == TableInv /\ EngineInv /\ CallInv

\* The detections admitted are numbers.
LEMMA DetectionFacts ==
    ASSUME TableInv
    PROVE  /\ DOMAIN retained = 1..Len(retained) /\ Len(retained) \in Nat
           /\ DOMAIN retained \subseteq Detections /\ DOMAIN retained \subseteq Nat
           /\ \A d \in DOMAIN retained :
                 /\ retained[d] \in Sightings
                 /\ retained[d].at \in Nat /\ retained[d].label \in 0..3
<1>1. /\ retained \in Seq(Sightings) /\ Len(retained) <= MaxDetections
      /\ DOMAIN retained = 1..Len(retained) /\ Len(retained) \in Nat
  BY DEF TableInv
<1>2. MaxDetections \in Nat
  BY BoundsAssumption
<1>3. 1..Len(retained) \subseteq 1..MaxDetections
  BY <1>1, <1>2
<1>4. \A d \in DOMAIN retained : retained[d] \in Sightings
  BY <1>1
<1> QED
  BY <1>1, <1>3, <1>4, SightingsAssumption DEF Detections

\* The invariant implies the type invariant that the runs check.
LEMMA CoreType == Core => TypeOK
  BY DEF Core, TableInv, EngineInv, TracksOver, RuleMaps, TypeOK, Range

\* The empty engine.
LEMMA EmptyTracks ==
    ASSUME NEW D
    PROVE  TracksOver(EmptyEngine, D)
  BY DEF TracksOver, EmptyEngine, Shape, RuleMaps, Ranked

LEMMA CoreInit == Init => Core
<1> SUFFICES ASSUME Init PROVE Core
  OBVIOUS
<1>1. TracksOver(engine, DOMAIN retained)
  BY EmptyTracks DEF Init
<1>2. TableInv
  BY BoundsAssumption DEF Init, TableInv
<1>3. CallInv
  BY DEF Init, CallInv
<1> QED
  BY <1>1, <1>2, <1>3 DEF Core, EngineInv, Init

\* The new track's points are those of the old one and the detection.
LEMMA FusedPoints ==
    ASSUME TableInv, NEW e, TracksOver(e, DOMAIN retained), NEW t, NEW d \in DOMAIN retained,
           NEW f, Fused(e, f, t, d)
    PROVE  LET new == f.tracks[t].points
               old == PointsIn(e, t)
           IN  /\ old \in Seq(Nat) /\ Len(old) <= PointCap
               /\ new \in Seq(Nat) /\ new # <<>> /\ Len(new) <= PointCap
               /\ PointsGrow(new, old, d)
               /\ Range(new) \subseteq Range(old) \cup {d} /\ d \in Range(new)
               /\ Range(old) \subseteq Range(new) \/ Len(new) = PointCap
               /\ Len(old) = PointCap => Len(new) = PointCap
<1>1. PICK new : new = f.tracks[t].points
  OBVIOUS
<1>2. PICK old : old = PointsIn(e, t)
  OBVIOUS
<1>3. KeptOf(new, old, d)
  BY <1>1, <1>2 DEF Fused, Grown, KeptOf
<1>4. d \in Nat
  BY DetectionFacts
<1>5. old \in Seq(Nat) /\ Len(old) <= PointCap
  <2>1. CASE t \in DOMAIN e.tracks
    BY <1>2, <2>1 DEF PointsIn, TracksOver
  <2>2. CASE t \notin DOMAIN e.tracks
    <3>1. old = <<>>
      BY <1>2, <2>2 DEF PointsIn
    <3> QED
      BY <3>1, BoundsAssumption
  <2> QED
    BY <2>1, <2>2
<1>6. /\ new \in Seq(Nat) /\ new # <<>> /\ Len(new) <= PointCap
      /\ PointsGrow(new, old, d)
  BY <1>3, <1>4, <1>5, KeptGrows
<1>7. /\ Range(new) \subseteq Range(old) \cup {d} /\ d \in Range(new)
      /\ Range(old) \subseteq Range(new) \/ Len(new) = PointCap
      /\ Len(old) = PointCap => Len(new) = PointCap
  BY <1>5, <1>6, GrownRange
<1> QED
  BY <1>1, <1>2, <1>5, <1>6, <1>7

LEMMA FusedTracks ==
    ASSUME TableInv, NEW e, TracksOver(e, DOMAIN retained), NEW t \in DOMAIN retained,
           NEW d \in DOMAIN retained, NEW f, Fused(e, f, t, d)
    PROVE  TracksOver(f, DOMAIN retained)
<1>1. /\ Shape(f) /\ RuleMaps(f)
      /\ DOMAIN f.tracks = DOMAIN e.tracks \cup {t}
      /\ \A u \in DOMAIN e.tracks \ {t} : Same(f.tracks[u], e.tracks[u])
      /\ \A m \in DOMAIN f.byMMSI :
            f.byMMSI[m] = t \/ (m \in DOMAIN e.byMMSI /\ f.byMMSI[m] = e.byMMSI[m])
  BY DEF Fused
<1>2. PICK new : new = f.tracks[t].points
  OBVIOUS
<1>3. PICK old : old = PointsIn(e, t)
  OBVIOUS
<1>4. /\ new \in Seq(Nat) /\ new # <<>> /\ Len(new) <= PointCap
      /\ Range(new) \subseteq Range(old) \cup {d}
  BY <1>2, <1>3, FusedPoints
<1>5. Range(old) \subseteq DOMAIN retained
  BY <1>3 DEF PointsIn, TracksOver, Range
<1>6. f.tracks[t].lastAISAt \in Int
  <2>1. retained[d].at \in Nat
    BY DetectionFacts
  <2>2. AISAt(e, t) \in Int
    BY DEF AISAt, TracksOver, Never
  <2> QED
    BY <2>1, <2>2 DEF Fused, Grown, LastAISAt
<1>7. Ranked(f)
  BY <1>1 DEF Ranked, Fused, Grown, Same, TracksOver
<1>8. ASSUME NEW u \in DOMAIN f.tracks
      PROVE  /\ f.tracks[u].points \in Seq(Nat) /\ f.tracks[u].points # <<>>
             /\ Len(f.tracks[u].points) <= PointCap
             /\ Range(f.tracks[u].points) \subseteq DOMAIN retained
             /\ f.tracks[u].lastAISAt \in Int
  <2>1. CASE u = t
    BY <1>2, <1>4, <1>5, <1>6, <2>1
  <2>2. CASE u # t
    BY <1>1, <2>2 DEF TracksOver, Same
  <2> QED
    BY <2>1, <2>2
<1>9. \A m \in DOMAIN f.byMMSI : f.byMMSI[m] \in DOMAIN f.tracks
  BY <1>1 DEF TracksOver
<1>10. DOMAIN f.tracks \subseteq DOMAIN retained
  BY <1>1 DEF TracksOver
<1> QED
  BY <1>1, <1>7, <1>8, <1>9, <1>10 DEF TracksOver

-----------------------------------------------------------------------------
(* What the steps do                                                       *)

SetCall(h, x) == call' = [call EXCEPT ![h] = x]

\* Only one call changes.
LEMMA CallEffect ==
    ASSUME CallInv, NEW h \in Handlers, NEW x, SetCall(h, x)
    PROVE  /\ DOMAIN call' = Handlers /\ call'[h] = x
           /\ \A g \in Handlers : g # h => call'[g] = call[g]
  BY DEF CallInv, SetCall

\* Opening, absorbing and the rules' state, in one: both ways of taking a detection.
LEMMA TakeFuses ==
    ASSUME NEW e, Shape(e), RuleMaps(e), Ranked(e), NEW t, NEW d, retained[d] \in Sightings,
           NEW o, Opened(e, o, t, d), NEW r, r = RuleState(AbsorbPoint(o, t, d), t, d)
    PROVE  Fused(e, r, t, d) /\ Ranked(r) /\ Unlatched(e, r, t)
<1>1. Shape(o) /\ t \in DOMAIN o.tracks
  BY DEF Opened
<1>2. PICK a : a = AbsorbPoint(o, t, d)
  OBVIOUS
<1>3. Absorbed(o, a, t, d)
  BY <1>1, <1>2, AbsorbPointAbsorbs
<1>4. Shape(a) /\ t \in DOMAIN a.tracks
  BY <1>1, <1>3 DEF Absorbed
<1>5. RuleMaps(o)
  BY DEF Opened, RuleMaps
<1>6. RuleMaps(a)
  BY <1>3, <1>5 DEF Absorbed, RuleMaps
<1>7. Ruled(a, r)
  BY <1>2, <1>4, <1>6, RuleStateRules
<1> QED
  BY <1>3, <1>7, StagesFuse

\* The latches that Ingest sets: on both tracks of each meeting, which had none.
Latches(e, f, t, met) ==
    /\ met \subseteq DOMAIN e.tracks \ {t}
    /\ t \in DOMAIN e.tracks => met \cap e.tracks[t].rendezAlerted = {}
    /\ f.tracks[t].rendezAlerted =
          met \cup (IF t \in DOMAIN e.tracks THEN e.tracks[t].rendezAlerted ELSE {})
    /\ \A u \in DOMAIN e.tracks \ {t} :
          f.tracks[u].rendezAlerted = e.tracks[u].rendezAlerted \cup (IF u \in met THEN {t} ELSE {})

\* The anomalies of an Ingest, against the engine it found.
BatchOf(e, t, d, b, met) ==
    /\ b \in Seq(Anomaly \cup {None})
    /\ \A n \in DOMAIN b : b[n] # None =>
          /\ b[n].track = t /\ b[n].stamp = <<"ingest", d>> /\ b[n].kind # "dark-vessel"
          /\ retained[d].label <= b[n].label
          /\ t \in DOMAIN e.tracks => e.tracks[t].label <= b[n].label
          /\ b[n].kind = "rendezvous" =>
                b[n].subject \in met /\ e.tracks[b[n].subject].label <= b[n].label
    /\ \A m, n \in DOMAIN b :
          /\ b[m] # None /\ b[n] # None
          /\ b[m].kind = "rendezvous" /\ b[n].kind = "rendezvous" /\ b[m].subject = b[n].subject
          => m = n

IngestStep(h, d, t, met, b) ==
    /\ call[h] # None /\ call[h].phase = "admitted" /\ call[h].det = d /\ d \in DOMAIN retained
    /\ t \in Associate(d) /\ t \in DOMAIN engine.tracks \cup {d}
    /\ Fused(engine, engine', t, d)
    /\ Latches(engine, engine', t, met)
    /\ BatchOf(engine, t, d, b, met)
    /\ SetCall(h, [phase |-> "fused", det |-> d, track |-> t, batch |-> b])
    /\ UNCHANGED <<now, process, pending, tables, scan, crashes>>

LEMMA IngestEffect ==
    ASSUME Core, NEW h \in Handlers, Ingest(h)
    PROVE  \E d, t, met, b : IngestStep(h, d, t, met, b)
<1>1. PICK d : d = call[h].det
  OBVIOUS
<1>2. call[h] # None /\ call[h].phase = "admitted" /\ d \in DOMAIN retained
  BY <1>1 DEF Ingest, At, Core, CallInv
<1>3. PICK t \in Associate(d) :
        LET r == RuleState(AbsorbPoint(WithTrack(engine, t, d), t, d), t, d)
        IN  \E meetings \in SetToSeqs(Meeting(r.tracks[t])) :
               /\ engine' = Alerted(r, t)
               /\ SetCall(h, [phase |-> "fused", det |-> d, track |-> t,
                              batch |-> Alerts(r, t, d, meetings)])
  BY <1>1 DEF Ingest, SetCall
<1>4. PICK e : e = engine
  OBVIOUS
<1>5. PICK o : o = WithTrack(e, t, d)
  OBVIOUS
<1>6. PICK r : r = RuleState(AbsorbPoint(o, t, d), t, d)
  OBVIOUS
<1>7. PICK f : f = Alerted(r, t)
  OBVIOUS
<1>8. PICK met : met = Meeting(r.tracks[t])
  OBVIOUS
<1>9. PICK meetings \in SetToSeqs(met) :
        /\ engine' = f
        /\ SetCall(h, [phase |-> "fused", det |-> d, track |-> t,
                       batch |-> Alerts(r, t, d, meetings)])
  BY <1>3, <1>4, <1>5, <1>6, <1>7, <1>8
<1>10. PICK b : b = Alerts(r, t, d, meetings)
  OBVIOUS
<1>11. /\ Shape(e) /\ RuleMaps(e) /\ Ranked(e) /\ DOMAIN e.tracks \subseteq DOMAIN retained
  BY <1>4 DEF Core, EngineInv, TracksOver
<1>12. /\ retained[d] \in Sightings /\ retained[d].label \in 0..3 /\ d \in Nat
       /\ DOMAIN retained \subseteq Detections
  BY <1>2, DetectionFacts DEF Core
<1>13. t \in DOMAIN e.tracks \cup {d}
  <2>1. \A m \in DOMAIN e.byMMSI : e.byMMSI[m] \in DOMAIN e.tracks
    BY <1>4 DEF Core, EngineInv, TracksOver
  <2> QED
    BY <1>3, <1>4, <2>1 DEF Associate, Candidates
<1>14. Opened(e, o, t, d)
  BY <1>5, <1>11, WithTrackOpens
<1>15. Fused(e, r, t, d) /\ Ranked(r) /\ Unlatched(e, r, t)
  BY <1>6, <1>11, <1>12, <1>14, TakeFuses
<1>16. /\ Shape(r) /\ RuleMaps(r) /\ t \in DOMAIN r.tracks
       /\ DOMAIN r.tracks = DOMAIN e.tracks \cup {t}
       /\ DOMAIN r.tracks \subseteq Detections
  BY <1>2, <1>11, <1>12, <1>13, <1>15 DEF Fused
<1>17. Latched(r, f, t, met)
  BY <1>7, <1>8, <1>15, <1>16, AlertedLatches
<1>18. Fused(e, f, t, d)
  BY <1>11, <1>12, <1>15, <1>17, LatchesFuse
<1>19. BatchOK(r, t, d, b, met)
  BY <1>8, <1>10, <1>12, <1>15, <1>16, AlertsBatch
<1>20. met \subseteq DOMAIN e.tracks \ {t} /\ met \cap r.tracks[t].rendezAlerted = {}
  BY <1>8, <1>16 DEF Meeting, RuleMaps
<1>21. Latches(e, f, t, met)
  BY <1>15, <1>16, <1>17, <1>20 DEF Latches, Latched, Unlatched
<1>22. BatchOf(e, t, d, b, met)
  <2>1. /\ retained[d].label <= r.tracks[t].label /\ r.tracks[t].label \in 0..3
        /\ t \in DOMAIN e.tracks => e.tracks[t].label <= r.tracks[t].label
        /\ \A u \in DOMAIN e.tracks \ {t} : e.tracks[u].label = r.tracks[u].label
    BY <1>15 DEF Fused, Grown, Same
  <2>2. b \in Seq(Anomaly \cup {None})
    BY <1>19 DEF BatchOK
  <2>3. ASSUME NEW n \in DOMAIN b, b[n] # None
        PROVE  b[n].label \in 0..3
    BY <2>2, <2>3 DEF Anomaly
  <2>4. ASSUME NEW n \in DOMAIN b, b[n] # None
        PROVE  /\ b[n].track = t /\ b[n].stamp = <<"ingest", d>> /\ b[n].kind # "dark-vessel"
               /\ r.tracks[t].label <= b[n].label
               /\ b[n].kind = "rendezvous" =>
                     b[n].subject \in met /\ r.tracks[b[n].subject].label <= b[n].label
    BY <1>19, <2>4 DEF BatchOK
  <2>5. ASSUME NEW n \in DOMAIN b, b[n] # None
        PROVE  /\ retained[d].label <= b[n].label
               /\ t \in DOMAIN e.tracks => e.tracks[t].label <= b[n].label
    BY <1>11, <1>12, <2>1, <2>3, <2>4, <2>5 DEF Ranked
  <2>6. ASSUME NEW n \in DOMAIN b, b[n] # None, b[n].kind = "rendezvous"
        PROVE  b[n].subject \in met /\ e.tracks[b[n].subject].label <= b[n].label
    BY <1>20, <2>1, <2>4, <2>6
  <2> QED
    BY <1>19, <2>4, <2>5, <2>6 DEF BatchOf, BatchOK
<1>23. SetCall(h, [phase |-> "fused", det |-> d, track |-> t, batch |-> b])
  BY <1>9, <1>10
<1>24. UNCHANGED <<now, process, pending, tables, scan, crashes>>
  BY DEF Ingest
<1>25. engine = e /\ engine' = f
  BY <1>4, <1>9
<1>26. IngestStep(h, d, t, met, b)
  BY <1>1, <1>2, <1>3, <1>13, <1>18, <1>21, <1>22, <1>23, <1>24, <1>25 DEF IngestStep
<1> QED
  BY <1>26

\* The replay of one association.
ReplayStep(n) ==
    /\ process = "replaying" /\ n \in pending
    /\ Fused(engine, engine', associations[n].track, associations[n].det)
    /\ Unlatched(engine, engine', associations[n].track)
    /\ pending' = pending \ {n}
    /\ UNCHANGED <<now, process, tables, call, scan, crashes>>

LEMMA ReplayEffect ==
    ASSUME Core, ReplayNext
    PROVE  \E n \in DOMAIN associations : ReplayStep(n)
<1>1. PICK n \in pending : engine' = Replay(engine, associations[n]) /\ pending' = pending \ {n}
  BY DEF ReplayNext
<1>2. PICK t : t = associations[n].track
  OBVIOUS
<1>3. PICK d : d = associations[n].det
  OBVIOUS
<1>4. n \in DOMAIN associations /\ d \in DOMAIN retained
  BY <1>3 DEF Core, TableInv
<1>5. PICK e : e = engine
  OBVIOUS
<1>6. /\ Shape(e) /\ RuleMaps(e) /\ Ranked(e)
  BY <1>5 DEF Core, EngineInv, TracksOver
<1>7. PICK o : o = IF t \in DOMAIN e.tracks THEN e
                   ELSE [e EXCEPT !.tracks = Put(@, t, newTrack(retained[d].label))]
  OBVIOUS
<1>8. Opened(e, o, t, d)
  BY <1>6, <1>7, ReplayOpens
<1>9. PICK r : r = RuleState(AbsorbPoint(o, t, d), t, d)
  OBVIOUS
<1>10. retained[d] \in Sightings
  BY <1>4, DetectionFacts DEF Core
<1>11. Fused(e, r, t, d) /\ Unlatched(e, r, t)
  BY <1>6, <1>8, <1>9, <1>10, TakeFuses
<1>12. engine' = r
  BY <1>1, <1>2, <1>3, <1>5, <1>7, <1>9 DEF Replay, RestoreRuleState
<1>13. Fused(engine, engine', t, d) /\ Unlatched(engine, engine', t)
  BY <1>5, <1>11, <1>12
<1> QED
  BY <1>1, <1>2, <1>3, <1>4, <1>13 DEF ReplayStep, ReplayNext

\* A scan latches the dark tracks and changes nothing else of the engine.
Scanned(e, f, dark) ==
    /\ Shape(f)
    /\ DOMAIN f.tracks = DOMAIN e.tracks /\ f.byMMSI = e.byMMSI
    /\ \A t \in DOMAIN e.tracks :
          /\ f.tracks[t].mmsi = e.tracks[t].mmsi /\ f.tracks[t].label = e.tracks[t].label
          /\ f.tracks[t].points = e.tracks[t].points
          /\ f.tracks[t].lastAISAt = e.tracks[t].lastAISAt
          /\ f.tracks[t].zoneEnter = e.tracks[t].zoneEnter
          /\ f.tracks[t].nearSince = e.tracks[t].nearSince
          /\ f.tracks[t].rendezAlerted = e.tracks[t].rendezAlerted
          /\ t \in dark => f.tracks[t].darkAlerted
          /\ t \notin dark => f.tracks[t].darkAlerted = e.tracks[t].darkAlerted

DarkAnomaly(t) ==
    [kind |-> "dark-vessel", track |-> t, subject |-> None, label |-> engine.tracks[t].label,
     stamp |-> <<"scan", now>>]

LEMMA ScanEffect ==
    ASSUME Core, ScanDarkVessels
    PROVE  /\ Scanned(engine, engine', Dark)
           /\ scan' = {DarkAnomaly(t) : t \in Dark}
           /\ \A t \in Dark : DarkAnomaly(t) \in Anomaly
<1>1. Shape(engine) /\ DOMAIN engine.tracks \subseteq DOMAIN retained /\ Ranked(engine)
  BY DEF Core, EngineInv, TracksOver
<1>2. PICK dark : dark = Dark
  OBVIOUS
<1>3. PICK e : e = engine
  OBVIOUS
<1> DEFINE Of(t) == IF t \in dark THEN [e.tracks[t] EXCEPT !.darkAlerted = TRUE] ELSE e.tracks[t]
           f == [e EXCEPT !.tracks = [t \in DOMAIN e.tracks |-> Of(t)]]
<1>4. engine' = f
  BY <1>2, <1>3 DEF ScanDarkVessels
<1>5. Scanned(e, f, dark)
  <2>1. ASSUME NEW t \in DOMAIN e.tracks
        PROVE  /\ DOMAIN Of(t) = TrackFields
               /\ Of(t).mmsi = e.tracks[t].mmsi /\ Of(t).label = e.tracks[t].label
               /\ Of(t).points = e.tracks[t].points
               /\ Of(t).lastAISAt = e.tracks[t].lastAISAt
               /\ Of(t).zoneEnter = e.tracks[t].zoneEnter
               /\ Of(t).nearSince = e.tracks[t].nearSince
               /\ Of(t).rendezAlerted = e.tracks[t].rendezAlerted
               /\ t \in dark => Of(t).darkAlerted
               /\ t \notin dark => Of(t).darkAlerted = e.tracks[t].darkAlerted
    <3>1. DOMAIN e.tracks[t] = TrackFields
      BY <1>1, <1>3 DEF Shape
    <3> QED
      BY <3>1 DEF TrackFields
  <2> HIDE DEF Of
  <2>2. /\ DOMAIN f = {"tracks", "byMMSI"} /\ f.byMMSI = e.byMMSI
        /\ DOMAIN f.tracks = DOMAIN e.tracks
        /\ \A t \in DOMAIN e.tracks : f.tracks[t] = Of(t)
    BY <1>1, <1>3 DEF Shape
  <2> HIDE DEF f
  <2> QED
    BY <2>1, <2>2 DEF Scanned, Shape
<1>6. scan' = {DarkAnomaly(t) : t \in Dark}
  BY DEF ScanDarkVessels, DarkAnomaly
<1>7. ASSUME NEW t \in Dark
      PROVE  DarkAnomaly(t) \in Anomaly
  <2>1. t \in DOMAIN engine.tracks
    BY DEF Dark
  <2>2. t \in Detections /\ engine.tracks[t].label \in 0..3
    BY <1>1, <2>1, DetectionFacts DEF Core, Ranked
  <2>3. now \in Nat
    BY BoundsAssumption DEF Core, TableInv
  <2> QED
    BY <2>2, <2>3 DEF DarkAnomaly, Anomaly
<1> QED
  BY <1>2, <1>3, <1>4, <1>5, <1>6, <1>7

\* What a scan leaves is made of the same detections.
LEMMA ScannedTracks ==
    ASSUME NEW D, NEW e, TracksOver(e, D), NEW f, NEW dark, Scanned(e, f, dark)
    PROVE  TracksOver(f, D)
<1>1. Shape(f) /\ DOMAIN f.tracks = DOMAIN e.tracks /\ f.byMMSI = e.byMMSI
  BY DEF Scanned
<1>2. RuleMaps(f) /\ Ranked(f)
  BY DEF Scanned, TracksOver, RuleMaps, Ranked
<1>3. \A t \in DOMAIN f.tracks :
        /\ f.tracks[t].points = e.tracks[t].points
        /\ f.tracks[t].lastAISAt = e.tracks[t].lastAISAt
  BY DEF Scanned
<1> QED
  BY <1>1, <1>2, <1>3 DEF TracksOver

\* One more detection is retained.
LEMMA AdmitEffect ==
    ASSUME Core, NEW h \in Handlers, NEW s \in Sightings, Admit(h, s)
    PROVE  LET d == Len(retained) + 1 IN
           /\ process = "serving" /\ call[h] = None
           /\ retained' \in Seq(Sightings) /\ Len(retained') = d /\ d <= MaxDetections
           /\ d \notin DOMAIN retained /\ d \in Nat
           /\ DOMAIN retained' = DOMAIN retained \cup {d}
           /\ retained'[d] = s
           /\ \A c \in DOMAIN retained : retained'[c] = retained[c]
           /\ SetCall(h, [phase |-> "admitted", det |-> d])
           /\ UNCHANGED <<now, process, pending, engine, rows, associations, anomalies, scan, crashes>>
<1>1. retained \in Seq(Sightings) /\ Len(retained) \in Nat /\ MaxDetections \in Nat
  BY BoundsAssumption DEF Core, TableInv
<1>2. retained' = Append(retained, s) /\ Len(retained) < MaxDetections
  BY DEF Admit
<1>3. PICK l : l = retained'
  OBVIOUS
<1>4. /\ l \in Seq(Sightings) /\ Len(l) = Len(retained) + 1
      /\ l[Len(retained) + 1] = s
      /\ \A c \in 1..Len(retained) : l[c] = retained[c]
  BY <1>1, <1>2, <1>3
<1>5. DOMAIN retained = 1..Len(retained) /\ DOMAIN l = 1..(Len(retained) + 1)
  BY <1>1, <1>4
<1>6. DOMAIN l = DOMAIN retained \cup {Len(retained) + 1} /\ Len(retained) + 1 \notin DOMAIN retained
  BY <1>1, <1>5
<1> QED
  BY <1>1, <1>2, <1>3, <1>4, <1>5, <1>6 DEF Admit, SetCall

\* One more association is recorded, with what the batch holds.
RecordStep(h, t, d, b) ==
    /\ call[h] # None /\ call[h].phase = "snapshot"
    /\ call[h].track = t /\ call[h].det = d /\ call[h].batch = b
    /\ associations' \in Seq([track : Nat, det : Nat])
    /\ DOMAIN associations' = DOMAIN associations \cup {Len(associations) + 1}
    /\ Len(associations) + 1 \notin DOMAIN associations
    /\ associations'[Len(associations) + 1] = [track |-> t, det |-> d]
    /\ \A n \in DOMAIN associations : associations'[n] = associations[n]
    /\ anomalies' = anomalies \cup Insertable(b)
    /\ SetCall(h, None)
    /\ UNCHANGED <<now, process, pending, retained, engine, scan, crashes>>

LEMMA RecordEffect ==
    ASSUME Core, NEW h \in Handlers, RecordFusion(h)
    PROVE  /\ \E t, d, b : RecordStep(h, t, d, b)
           /\ DOMAIN rows' = DOMAIN rows \cup {call[h].track}
<1>1. PICK t : t = call[h].track
  OBVIOUS
<1>2. PICK d : d = call[h].det
  OBVIOUS
<1>3. PICK b : b = call[h].batch
  OBVIOUS
<1>4. call[h] # None /\ call[h].phase = "snapshot"
  BY DEF RecordFusion, At
<1>5. d \in DOMAIN retained /\ t \in DOMAIN retained
  BY <1>1, <1>2, <1>4 DEF Core, CallInv, EngineInv, TracksOver
<1>6. d \in Nat /\ t \in Nat
  BY <1>5, DetectionFacts DEF Core
<1>7. PICK a \in [track : Nat, det : Nat] : a = [track |-> t, det |-> d]
  BY <1>6
<1>8. associations \in Seq([track : Nat, det : Nat])
  BY DEF Core, TableInv
<1>9. associations' = Append(associations, a)
  BY <1>1, <1>2, <1>7 DEF RecordFusion
<1>10. PICK l : l = associations'
  OBVIOUS
<1>11. PICK s : s = associations
  OBVIOUS
<1>12. PICK S : S = [track : Nat, det : Nat]
  OBVIOUS
<1>13. s \in Seq(S) /\ a \in S /\ l = Append(s, a)
  BY <1>7, <1>8, <1>9, <1>10, <1>11, <1>12
<1>14. /\ l \in Seq(S) /\ DOMAIN l = 1..(Len(s) + 1) /\ DOMAIN s = 1..Len(s) /\ Len(s) \in Nat
       /\ l[Len(s) + 1] = a
       /\ \A n \in 1..Len(s) : l[n] = s[n]
  BY <1>13
<1>15. DOMAIN l = DOMAIN s \cup {Len(s) + 1} /\ Len(s) + 1 \notin DOMAIN s
  BY <1>14
<1>16. RecordStep(h, t, d, b)
  BY <1>1, <1>2, <1>3, <1>4, <1>7, <1>10, <1>11, <1>12, <1>14, <1>15
     DEF RecordStep, RecordFusion, SetCall
<1>17. DOMAIN rows' = DOMAIN rows \cup {call[h].track}
  BY DEF RecordFusion, Put
<1> QED
  BY <1>16, <1>17

\* A batch inserts anomalies it holds.
LEMMA InsertableFacts ==
    ASSUME NEW b, NEW a \in Insertable(b)
    PROVE  \E n \in DOMAIN b : b[n] = a /\ a # None
  BY DEF Insertable

\* A call that only moves on, or ends: it keeps its detection, track and batch.
CallMoves(h) ==
    \E x : /\ SetCall(h, x)
           /\ x # None => /\ call[h] # None /\ call[h].phase # "admitted" /\ x.phase = "snapshot"
                          /\ x.det = call[h].det /\ x.track = call[h].track
                          /\ x.batch = call[h].batch
           /\ UNCHANGED <<now, process, pending, tables, engine, scan, crashes>>

LEMMA MoveEffect ==
    ASSUME NEW h \in Handlers, Snapshot(h) \/ RecordFusionFails(h), CallInv
    PROVE  CallMoves(h)
<1>1. CASE RecordFusionFails(h)
  BY <1>1 DEF RecordFusionFails, CallMoves, SetCall
<1>2. CASE Snapshot(h)
  <2>1. PICK c : c = call[h]
    OBVIOUS
  <2>2. PICK row : row = RowOf(engine.tracks[c.track])
    OBVIOUS
  <2> DEFINE x == [phase |-> "snapshot", det |-> c.det, track |-> c.track, batch |-> c.batch,
                   row |-> row]
  <2>3. SetCall(h, x)
    BY <1>2, <2>1, <2>2 DEF Snapshot, SetCall, CallInv
  <2>4. c # None /\ c.phase = "fused"
    BY <1>2, <2>1 DEF Snapshot, At
  <2>5. x.phase = "snapshot" /\ x.det = c.det /\ x.track = c.track /\ x.batch = c.batch
    OBVIOUS
  <2> HIDE DEF x
  <2> QED
    BY <1>2, <2>1, <2>3, <2>4, <2>5 DEF CallMoves, Snapshot
<1> QED
  BY <1>1, <1>2

\* Every step keeps the types.
LEMMA CoreStep == Core /\ [Next]_vars => Core'
<1> SUFFICES ASSUME Core, [Next]_vars PROVE Core'
  OBVIOUS
<1> USE DEF Core
<1>1. ASSUME NEW h \in Handlers, NEW s \in Sightings, Admit(h, s)
      PROVE  Core'
  <2>1. PICK d : d = Len(retained) + 1
    OBVIOUS
  <2>2. /\ process = "serving" /\ call[h] = None
        /\ retained' \in Seq(Sightings) /\ Len(retained') = d /\ d <= MaxDetections
        /\ DOMAIN retained' = DOMAIN retained \cup {d}
        /\ SetCall(h, [phase |-> "admitted", det |-> d])
        /\ UNCHANGED <<now, process, pending, engine, rows, associations, anomalies, scan, crashes>>
    BY <1>1, <2>1, AdmitEffect
  <2>3. TableInv'
    BY <2>2 DEF TableInv
  <2>4. EngineInv'
    BY <2>2 DEF EngineInv, TracksOver
  <2>5. CallInv'
    <3>1. PICK x : x = [phase |-> "admitted", det |-> d]
      OBVIOUS
    <3>2. x.phase = "admitted" /\ x.det = d
      BY <3>1
    <3>3. /\ DOMAIN call' = Handlers /\ call'[h] = x
          /\ \A g \in Handlers : g # h => call'[g] = call[g]
      BY <2>2, <3>1, CallEffect
    <3> QED
      BY <2>2, <3>2, <3>3 DEF CallInv, Calls
  <2> QED
    BY <2>3, <2>4, <2>5
<1>2. ASSUME NEW h \in Handlers, Ingest(h)
      PROVE  Core'
  <2>1. PICK d, t, met, b : IngestStep(h, d, t, met, b)
    BY <1>2, IngestEffect
  <2>2. /\ d \in DOMAIN retained /\ t \in DOMAIN retained /\ call[h] # None
        /\ Fused(engine, engine', t, d) /\ b \in Seq(Anomaly \cup {None})
        /\ SetCall(h, [phase |-> "fused", det |-> d, track |-> t, batch |-> b])
        /\ UNCHANGED <<now, process, pending, tables, scan, crashes>>
    BY <2>1 DEF IngestStep, BatchOf, EngineInv, TracksOver
  <2>3. TableInv'
    BY <2>2 DEF TableInv, tables
  <2>4. EngineInv'
    <3>1. TracksOver(engine', DOMAIN retained)
      BY <2>2, FusedTracks DEF EngineInv
    <3>2. process = "serving"
      BY <2>2 DEF CallInv
    <3> QED
      BY <2>2, <3>1, <3>2 DEF EngineInv, tables, TracksOver, Shape, RuleMaps, Ranked
  <2>5. CallInv'
    <3>1. PICK x : x = [phase |-> "fused", det |-> d, track |-> t, batch |-> b]
      OBVIOUS
    <3>2. x.phase = "fused" /\ x.det = d /\ x.track = t /\ x.batch = b
      BY <3>1
    <3>3. /\ DOMAIN call' = Handlers /\ call'[h] = x
          /\ \A g \in Handlers : g # h => call'[g] = call[g]
      BY <2>2, <3>1, CallEffect
    <3>4. DOMAIN engine'.tracks = DOMAIN engine.tracks \cup {t}
      BY <2>2 DEF Fused
    <3>5. process' = "serving" /\ DOMAIN retained' = DOMAIN retained
      BY <2>2 DEF CallInv, tables
    <3> QED
      BY <2>2, <3>2, <3>3, <3>4, <3>5 DEF CallInv, Calls
  <2> QED
    BY <2>3, <2>4, <2>5
<1>3. ASSUME NEW h \in Handlers, Snapshot(h) \/ RecordFusionFails(h)
      PROVE  Core'
  <2>1. PICK x :
          /\ SetCall(h, x)
          /\ x # None => /\ call[h] # None /\ call[h].phase # "admitted" /\ x.phase = "snapshot"
                         /\ x.det = call[h].det /\ x.track = call[h].track
                         /\ x.batch = call[h].batch
          /\ UNCHANGED <<now, process, pending, tables, engine, scan, crashes>>
    BY <1>3, MoveEffect DEF CallMoves
  <2>2. /\ DOMAIN call' = Handlers /\ call'[h] = x
        /\ \A g \in Handlers : g # h => call'[g] = call[g]
    BY <2>1, CallEffect
  <2>3. TableInv'
    BY <2>1 DEF TableInv, tables
  <2>4. EngineInv'
    BY <2>1 DEF EngineInv, tables
  <2>5. CallInv'
    BY <2>1, <2>2 DEF CallInv, Calls, tables
  <2> QED
    BY <2>3, <2>4, <2>5
<1>4. ASSUME NEW h \in Handlers, RecordFusion(h)
      PROVE  Core'
  <2>1. PICK t, d, b : RecordStep(h, t, d, b)
    BY <1>4, RecordEffect
  <2>2. DOMAIN rows' = DOMAIN rows \cup {t}
    BY <1>4, <2>1, RecordEffect DEF RecordStep
  <2>3. t \in DOMAIN retained /\ d \in DOMAIN retained /\ b \in Seq(Anomaly \cup {None})
        /\ process = "serving"
    BY <2>1 DEF RecordStep, CallInv, EngineInv, TracksOver
  <2>4. Insertable(b) \subseteq Anomaly
    BY <2>3, InsertableFacts
  <2>5. TableInv'
    <3>1. pending = {}
      BY <2>3 DEF TableInv
    <3>2. \A n \in DOMAIN associations' :
             associations'[n].track \in DOMAIN retained /\ associations'[n].det \in DOMAIN retained
      BY <2>1, <2>3 DEF RecordStep, TableInv
    <3>3. /\ associations' \in Seq([track : Nat, det : Nat])
          /\ anomalies' \subseteq Anomaly
          /\ UNCHANGED <<now, process, pending, retained, engine, scan, crashes>>
      BY <2>1, <2>4 DEF RecordStep, TableInv
    <3> QED
      BY <2>2, <2>3, <3>1, <3>2, <3>3 DEF TableInv
  <2>6. EngineInv'
    BY <2>1 DEF RecordStep, EngineInv
  <2>7. CallInv'
    <3>1. /\ DOMAIN call' = Handlers /\ call'[h] = None
          /\ \A g \in Handlers : g # h => call'[g] = call[g]
      BY <2>1, CallEffect DEF RecordStep
    <3> QED
      BY <2>1, <3>1 DEF RecordStep, CallInv
  <2> QED
    BY <2>5, <2>6, <2>7
<1>5. CASE ScanDarkVessels
  <2>1. /\ Scanned(engine, engine', Dark) /\ scan' \subseteq Anomaly
    BY <1>5, ScanEffect
  <2>2. process = "serving" /\ UNCHANGED <<now, process, pending, tables, call, crashes>>
    BY <1>5 DEF ScanDarkVessels
  <2>3. TracksOver(engine', DOMAIN retained)
    BY <2>1, ScannedTracks DEF EngineInv
  <2>4. TableInv'
    BY <2>1, <2>2 DEF TableInv, tables
  <2>5. EngineInv'
    BY <2>2, <2>3 DEF EngineInv, tables, TracksOver, Shape, RuleMaps, Ranked
  <2>6. CallInv'
    BY <2>1, <2>2 DEF CallInv, tables, Scanned
  <2> QED
    BY <2>4, <2>5, <2>6
<1>6. CASE RecordAnomalies \/ RecordAnomaliesFails
  <2>1. TableInv'
    BY <1>6 DEF RecordAnomalies, RecordAnomaliesFails, TableInv, tables
  <2>2. EngineInv'
    BY <1>6 DEF RecordAnomalies, RecordAnomaliesFails, EngineInv, tables
  <2>3. CallInv'
    BY <1>6 DEF RecordAnomalies, RecordAnomaliesFails, CallInv, tables
  <2> QED
    BY <2>1, <2>2, <2>3
<1>7. CASE Tick
  <2>1. TableInv'
    BY <1>7, BoundsAssumption DEF Tick, TableInv, tables
  <2>2. EngineInv' /\ CallInv'
    BY <1>7 DEF Tick, EngineInv, CallInv, tables
  <2> QED
    BY <2>1, <2>2
<1>8. CASE Crash
  <2>1. TableInv'
    BY <1>8, BoundsAssumption DEF Crash, TableInv, tables
  <2>2. EngineInv'
    BY <1>8, EmptyTracks DEF Crash, EngineInv, tables
  <2>3. CallInv'
    BY <1>8 DEF Crash, CallInv
  <2> QED
    BY <2>1, <2>2, <2>3
<1>9. CASE Restart
  <2>1. TableInv'
    BY <1>9 DEF Restart, TableInv, tables
  <2>2. EngineInv'
    BY <1>9 DEF Restart, EngineInv, tables
  <2>3. CallInv'
    BY <1>9 DEF Restart, CallInv, tables
  <2> QED
    BY <2>1, <2>2, <2>3
<1>10. CASE ReplayNext
  <2>1. PICK n \in DOMAIN associations : ReplayStep(n)
    BY <1>10, ReplayEffect
  <2>2. PICK t : t = associations[n].track
    OBVIOUS
  <2>3. PICK d : d = associations[n].det
    OBVIOUS
  <2>4. /\ process = "replaying" /\ Fused(engine, engine', t, d)
        /\ pending' = pending \ {n} /\ UNCHANGED <<now, process, tables, call, scan, crashes>>
    BY <2>1, <2>2, <2>3 DEF ReplayStep
  <2>5. t \in DOMAIN retained /\ d \in DOMAIN retained
    BY <2>2, <2>3 DEF TableInv
  <2>6. TableInv'
    BY <2>4 DEF TableInv, tables
  <2>7. EngineInv'
    <3>1. TracksOver(engine', DOMAIN retained)
      BY <2>4, <2>5, FusedTracks DEF EngineInv
    <3> QED
      BY <2>4, <3>1 DEF EngineInv, tables, TracksOver, Shape, RuleMaps, Ranked
  <2>8. CallInv'
    BY <2>4 DEF CallInv, tables
  <2> QED
    BY <2>6, <2>7, <2>8
<1>11. CASE Serve
  <2>1. TableInv'
    BY <1>11 DEF Serve, TableInv, tables
  <2>2. EngineInv'
    BY <1>11 DEF Serve, EngineInv, tables
  <2>3. CallInv'
    BY <1>11 DEF Serve, CallInv, tables
  <2> QED
    BY <2>1, <2>2, <2>3
<1>12. CASE UNCHANGED vars
  BY <1>12 DEF vars, TableInv, EngineInv, CallInv
<1> QED
  BY <1>1, <1>2, <1>3, <1>4, <1>5, <1>6, <1>7, <1>8, <1>9, <1>10, <1>11, <1>12 DEF Next

\* The state has its types (TypeOK): at every moment every track is made of one to
\* PointCap retained detections, the rules' maps name configured zones and other
\* tracks of the engine, the MMSI index names tracks, and what is recorded is well
\* formed, whatever fails and while the associations are replayed.
THEOREM FusionTypeCorrect == Spec => []TypeOK
<1>1. Spec => []Core
  BY CoreInit, CoreStep, PTL DEF Spec
<1> QED
  BY <1>1, CoreType, PTL

-----------------------------------------------------------------------------
(* Recorded associations are in the engine                                 *)

\* Detection c is among the points of track t; it is, or it was and was dropped.
Holds(e, t, c) == t \in DOMAIN e.tracks /\ c \in Range(e.tracks[t].points)
Held(e, t, c) ==
    /\ t \in DOMAIN e.tracks
    /\ c \in Range(e.tracks[t].points) \/ Len(e.tracks[t].points) = PointCap

\* The detections of calls and of associations are all different.
DetectionInv ==
    /\ \A g, h \in Handlers :
          g # h /\ call[g] # None /\ call[h] # None => call[g].det # call[h].det
    /\ \A m, n \in DOMAIN associations : m # n => associations[m].det # associations[n].det
    /\ \A h \in Handlers, n \in DOMAIN associations :
          call[h] # None => call[h].det # associations[n].det

\* What was fused is held, and what the replay has taken.
HeldInv ==
    /\ process # "down" =>
          \A n \in DOMAIN associations \ pending :
             Held(engine, associations[n].track, associations[n].det)
    /\ \A h \in Handlers :
          call[h] # None /\ call[h].phase # "admitted" => Held(engine, call[h].track, call[h].det)

\* A detection is in one track; one that is not fused yet is in none and has opened
\* none; during the replay a track holds only what was replayed into it.
PointInv ==
    /\ \A t, u, c : Holds(engine, t, c) /\ Holds(engine, u, c) => t = u
    /\ \A h \in Handlers :
          call[h] # None /\ call[h].phase = "admitted" =>
             /\ call[h].det \notin DOMAIN engine.tracks
             /\ \A t : ~Holds(engine, t, call[h].det)
    /\ process = "replaying" =>
          \A t, c : Holds(engine, t, c) =>
             \E n \in DOMAIN associations \ pending :
                associations[n].track = t /\ associations[n].det = c

SeatInv == DetectionInv /\ HeldInv /\ PointInv

LEMMA SeatProperty == Core /\ SeatInv => AssociationsAreInEngine
<1> SUFFICES ASSUME Core, SeatInv, Up PROVE
        /\ \A n \in DOMAIN associations :
              LET a == associations[n] IN
              /\ a.track \in DOMAIN engine.tracks
              /\ a.det \in PointsOf(a.track) \/ Len(engine.tracks[a.track].points) = PointCap
        /\ \A t, u \in DOMAIN engine.tracks : PointsOf(t) \cap PointsOf(u) # {} => t = u
  BY DEF AssociationsAreInEngine
<1>1. process = "serving" /\ pending = {}
  BY DEF Up, Core, TableInv
<1>2. \A n \in DOMAIN associations : Held(engine, associations[n].track, associations[n].det)
  BY <1>1 DEF SeatInv, HeldInv
<1>3. \A t, u \in DOMAIN engine.tracks : PointsOf(t) \cap PointsOf(u) # {} => t = u
  BY DEF SeatInv, PointInv, Holds, PointsOf
<1> QED
  BY <1>2, <1>3 DEF Held, PointsOf

\* A detection that is taken is held, and what was held stays.
LEMMA FusedSeats ==
    ASSUME TableInv, NEW e, TracksOver(e, DOMAIN retained), NEW t, NEW d \in DOMAIN retained,
           NEW f, Fused(e, f, t, d)
    PROVE  /\ Held(f, t, d)
           /\ \A u, c : Held(e, u, c) => Held(f, u, c)
           /\ \A u, c : Holds(f, u, c) => Holds(e, u, c) \/ (u = t /\ c = d)
<1>1. /\ DOMAIN f.tracks = DOMAIN e.tracks \cup {t}
      /\ \A u \in DOMAIN e.tracks \ {t} : f.tracks[u].points = e.tracks[u].points
  BY DEF Fused, Same
<1>2. PICK new : new = f.tracks[t].points
  OBVIOUS
<1>3. PICK old : old = PointsIn(e, t)
  OBVIOUS
<1>4. /\ Range(new) \subseteq Range(old) \cup {d} /\ d \in Range(new)
      /\ Range(old) \subseteq Range(new) \/ Len(new) = PointCap
      /\ Len(old) = PointCap => Len(new) = PointCap
  BY <1>2, <1>3, FusedPoints
<1>5. /\ t \in DOMAIN e.tracks => old = e.tracks[t].points
      /\ t \notin DOMAIN e.tracks => old = <<>>
  BY <1>3 DEF PointsIn
<1>6. t \notin DOMAIN e.tracks => Range(old) = {}
  BY <1>5 DEF Range
<1>7. Held(f, t, d)
  BY <1>1, <1>2, <1>4 DEF Held
<1>8. ASSUME NEW u, NEW c, Held(e, u, c)
      PROVE  Held(f, u, c)
  <2>1. CASE u = t
    BY <1>1, <1>2, <1>4, <1>5, <1>8, <2>1 DEF Held
  <2>2. CASE u # t
    BY <1>1, <1>8, <2>2 DEF Held
  <2> QED
    BY <2>1, <2>2
<1>9. ASSUME NEW u, NEW c, Holds(f, u, c)
      PROVE  Holds(e, u, c) \/ (u = t /\ c = d)
  <2>1. CASE u = t
    BY <1>1, <1>2, <1>4, <1>5, <1>6, <1>9, <2>1 DEF Holds
  <2>2. CASE u # t
    BY <1>1, <1>9, <2>2 DEF Holds
  <2> QED
    BY <2>1, <2>2
<1> QED
  BY <1>7, <1>8, <1>9

LEMMA ScannedSeats ==
    ASSUME NEW e, NEW f, NEW dark, Scanned(e, f, dark)
    PROVE  /\ \A u, c : Held(e, u, c) => Held(f, u, c)
           /\ \A u, c : Holds(f, u, c) => Holds(e, u, c)
           /\ DOMAIN f.tracks = DOMAIN e.tracks
  BY DEF Scanned, Held, Holds

LEMMA SeatInit == Init => SeatInv
<1> SUFFICES ASSUME Init PROVE SeatInv
  OBVIOUS
<1>1. DOMAIN engine.tracks = {}
  BY DEF Init, EmptyEngine
<1>2. DOMAIN associations = {} /\ \A h \in Handlers : call[h] = None
  BY DEF Init
<1> QED
  BY <1>1, <1>2 DEF SeatInv, DetectionInv, HeldInv, PointInv, Holds

LEMMA SeatStep == Core /\ SeatInv /\ [Next]_vars => SeatInv'
<1> SUFFICES ASSUME Core, SeatInv, [Next]_vars PROVE SeatInv'
  OBVIOUS
<1> USE DEF SeatInv
<1>0. TableInv /\ EngineInv /\ CallInv
  BY DEF Core
<1>1. ASSUME NEW h \in Handlers, NEW s \in Sightings, Admit(h, s)
      PROVE  SeatInv'
  <2>1. PICK d : d = Len(retained) + 1
    OBVIOUS
  <2>2. PICK x : x = [phase |-> "admitted", det |-> d]
    OBVIOUS
  <2>3. /\ d \notin DOMAIN retained /\ SetCall(h, x)
        /\ UNCHANGED <<now, process, pending, engine, rows, associations, anomalies, scan, crashes>>
    BY <1>1, <2>1, <2>2, AdmitEffect
  <2>4. /\ DOMAIN call' = Handlers /\ call'[h] = x
        /\ \A g \in Handlers : g # h => call'[g] = call[g]
    BY <1>0, <2>3, CallEffect
  <2>5. x.phase = "admitted" /\ x.det = d
    BY <2>2
  <2>6. d \notin DOMAIN engine.tracks /\ \A t : ~Holds(engine, t, d)
    BY <1>0, <2>3 DEF EngineInv, TracksOver, Holds
  <2>7. DetectionInv'
    BY <1>0, <2>3, <2>4, <2>5 DEF DetectionInv, CallInv, TableInv
  <2>8. HeldInv'
    BY <2>3, <2>4, <2>5 DEF HeldInv
  <2>9. PointInv'
    BY <2>3, <2>4, <2>5, <2>6 DEF PointInv
  <2> QED
    BY <2>7, <2>8, <2>9
<1>2. ASSUME NEW h \in Handlers, Ingest(h)
      PROVE  SeatInv'
  <2>1. PICK d, t, met, b : IngestStep(h, d, t, met, b)
    BY <1>2, IngestEffect
  <2>2. PICK x : x = [phase |-> "fused", det |-> d, track |-> t, batch |-> b]
    OBVIOUS
  <2>3. /\ d \in DOMAIN retained /\ t \in DOMAIN engine.tracks \cup {d}
        /\ call[h] # None /\ call[h].phase = "admitted" /\ call[h].det = d
        /\ Fused(engine, engine', t, d) /\ SetCall(h, x)
        /\ UNCHANGED <<process, pending, retained, associations>>
    BY <2>1, <2>2 DEF IngestStep, tables
  <2>4. /\ DOMAIN call' = Handlers /\ call'[h] = x
        /\ \A g \in Handlers : g # h => call'[g] = call[g]
    BY <1>0, <2>3, CallEffect
  <2>5. x.phase = "fused" /\ x.det = d /\ x.track = t
    BY <2>2
  <2>6. /\ Held(engine', t, d)
        /\ \A u, c : Held(engine, u, c) => Held(engine', u, c)
        /\ \A u, c : Holds(engine', u, c) => Holds(engine, u, c) \/ (u = t /\ c = d)
        /\ DOMAIN engine'.tracks = DOMAIN engine.tracks \cup {t}
    BY <1>0, <2>3, FusedSeats DEF EngineInv, Fused
  <2>7. process = "serving"
    BY <1>0, <2>3 DEF CallInv
  <2>8. DetectionInv'
    BY <2>3, <2>4, <2>5 DEF DetectionInv
  <2>9. HeldInv'
    BY <2>3, <2>4, <2>5, <2>6 DEF HeldInv
  <2>10. PointInv'
    <3>1. \A u : ~Holds(engine, u, d)
      BY <2>3 DEF PointInv
    <3>2. ASSUME NEW u, NEW v, NEW c, Holds(engine', u, c), Holds(engine', v, c)
          PROVE  u = v
      BY <2>6, <3>1, <3>2 DEF PointInv
    <3>3. ASSUME NEW g \in Handlers, call'[g] # None, call'[g].phase = "admitted"
          PROVE  /\ call'[g].det \notin DOMAIN engine'.tracks
                 /\ \A u : ~Holds(engine', u, call'[g].det)
      <4>1. g # h /\ call'[g] = call[g]
        BY <2>4, <2>5, <3>3
      <4>2. call[g].det # d
        BY <2>3, <3>3, <4>1 DEF DetectionInv
      <4>3. call[g].det \notin DOMAIN engine.tracks /\ \A u : ~Holds(engine, u, call[g].det)
        BY <3>3, <4>1 DEF PointInv
      <4> QED
        BY <2>3, <2>6, <4>1, <4>2, <4>3
    <3> QED
      BY <2>3, <2>7, <3>2, <3>3 DEF PointInv
  <2> QED
    BY <2>8, <2>9, <2>10
<1>3. ASSUME NEW h \in Handlers, Snapshot(h) \/ RecordFusionFails(h)
      PROVE  SeatInv'
  <2>1. PICK x :
          /\ SetCall(h, x)
          /\ x # None => /\ call[h] # None /\ call[h].phase # "admitted" /\ x.phase = "snapshot"
                         /\ x.det = call[h].det /\ x.track = call[h].track
          /\ UNCHANGED <<process, pending, retained, associations, engine>>
    BY <1>0, <1>3, MoveEffect DEF CallMoves, tables
  <2>2. /\ DOMAIN call' = Handlers /\ call'[h] = x
        /\ \A g \in Handlers : g # h => call'[g] = call[g]
    BY <1>0, <2>1, CallEffect
  <2>3. DetectionInv'
    BY <2>1, <2>2 DEF DetectionInv
  <2>4. HeldInv'
    BY <2>1, <2>2 DEF HeldInv
  <2>5. PointInv'
    BY <2>1, <2>2 DEF PointInv
  <2> QED
    BY <2>3, <2>4, <2>5
<1>4. ASSUME NEW h \in Handlers, RecordFusion(h)
      PROVE  SeatInv'
  <2>1. PICK t, d, b : RecordStep(h, t, d, b)
    BY <1>4, RecordEffect
  <2>2. PICK k : k = Len(associations) + 1
    OBVIOUS
  <2>3. PICK a : a = [track |-> t, det |-> d]
    OBVIOUS
  <2>4. a.track = t /\ a.det = d
    BY <2>3
  <2>5. /\ call[h] # None /\ call[h].phase = "snapshot" /\ call[h].track = t /\ call[h].det = d
        /\ DOMAIN associations' = DOMAIN associations \cup {k} /\ k \notin DOMAIN associations
        /\ associations'[k] = a
        /\ \A n \in DOMAIN associations : associations'[n] = associations[n]
        /\ UNCHANGED <<process, pending, retained, engine>>
    BY <2>1, <2>2, <2>3 DEF RecordStep
  <2>6. /\ DOMAIN call' = Handlers /\ call'[h] = None
        /\ \A g \in Handlers : g # h => call'[g] = call[g]
    BY <1>0, <2>1, CallEffect DEF RecordStep
  <2>7. process = "serving" /\ pending = {}
    BY <1>0, <2>5 DEF CallInv, TableInv
  <2>8. DetectionInv'
    BY <2>4, <2>5, <2>6 DEF DetectionInv
  <2>9. HeldInv'
    BY <2>4, <2>5, <2>6 DEF HeldInv
  <2>10. PointInv'
    BY <2>5, <2>6, <2>7 DEF PointInv
  <2> QED
    BY <2>8, <2>9, <2>10
<1>5. CASE ScanDarkVessels
  <2>1. /\ \A u, c : Held(engine, u, c) => Held(engine', u, c)
        /\ \A u, c : Holds(engine', u, c) => Holds(engine, u, c)
        /\ DOMAIN engine'.tracks = DOMAIN engine.tracks
    BY <1>5, ScanEffect, ScannedSeats
  <2>2. UNCHANGED <<process, pending, retained, associations, call>>
    BY <1>5 DEF ScanDarkVessels, tables
  <2>3. DetectionInv'
    BY <2>2 DEF DetectionInv
  <2>4. HeldInv'
    BY <2>1, <2>2 DEF HeldInv
  <2>5. PointInv'
    BY <2>1, <2>2 DEF PointInv
  <2> QED
    BY <2>3, <2>4, <2>5
<1>6. CASE Crash
  <2>1. /\ process' = "down" /\ pending' = {} /\ associations' = associations
        /\ DOMAIN engine'.tracks = {} /\ \A h \in Handlers : call'[h] = None
    BY <1>6 DEF Crash, tables, EmptyEngine
  <2>2. \A t, c : ~Holds(engine', t, c)
    BY <2>1 DEF Holds
  <2> QED
    BY <2>1, <2>2 DEF DetectionInv, HeldInv, PointInv
<1>7. CASE Restart
  <2>1. /\ process = "down" /\ pending' = DOMAIN associations
        /\ UNCHANGED <<associations, engine, call>>
    BY <1>7 DEF Restart, tables
  <2>2. DOMAIN engine.tracks = {} /\ \A h \in Handlers : call[h] = None
    BY <1>0, <2>1 DEF EngineInv, EmptyEngine, CallInv
  <2>3. \A t, c : ~Holds(engine, t, c)
    BY <2>2 DEF Holds
  <2> QED
    BY <2>1, <2>2, <2>3 DEF DetectionInv, HeldInv, PointInv
<1>8. CASE ReplayNext
  <2>1. PICK n \in DOMAIN associations : ReplayStep(n)
    BY <1>8, ReplayEffect
  <2>2. PICK t : t = associations[n].track
    OBVIOUS
  <2>3. PICK d : d = associations[n].det
    OBVIOUS
  <2>4. /\ process = "replaying" /\ n \in pending /\ Fused(engine, engine', t, d)
        /\ pending' = pending \ {n} /\ UNCHANGED <<process, retained, associations, call>>
    BY <2>1, <2>2, <2>3 DEF ReplayStep, tables
  <2>5. d \in DOMAIN retained /\ \A h \in Handlers : call[h] = None
    BY <1>0, <2>3, <2>4 DEF TableInv, CallInv
  <2>6. /\ Held(engine', t, d)
        /\ \A u, c : Held(engine, u, c) => Held(engine', u, c)
        /\ \A u, c : Holds(engine', u, c) => Holds(engine, u, c) \/ (u = t /\ c = d)
    BY <1>0, <2>4, <2>5, FusedSeats DEF EngineInv
  <2>7. DetectionInv'
    BY <2>4 DEF DetectionInv
  <2>8. HeldInv'
    BY <2>2, <2>3, <2>4, <2>5, <2>6 DEF HeldInv
  <2>9. PointInv'
    <3>1. \A u : ~Holds(engine, u, d)
      BY <2>3, <2>4 DEF PointInv, DetectionInv
    <3>2. ASSUME NEW u, NEW v, NEW c, Holds(engine', u, c), Holds(engine', v, c)
          PROVE  u = v
      BY <2>6, <3>1, <3>2 DEF PointInv
    <3>3. ASSUME NEW u, NEW c, Holds(engine', u, c)
          PROVE  \E k \in DOMAIN associations \ (pending \ {n}) :
                    associations[k].track = u /\ associations[k].det = c
      BY <2>2, <2>3, <2>4, <2>6, <3>3 DEF PointInv
    <3> QED
      BY <2>4, <2>5, <3>2, <3>3 DEF PointInv
  <2> QED
    BY <2>7, <2>8, <2>9
<1>9. CASE Serve
  <2>1. /\ process = "replaying" /\ process' = "serving"
        /\ UNCHANGED <<pending, associations, engine, call>>
    BY <1>9 DEF Serve, tables
  <2> QED
    BY <2>1 DEF DetectionInv, HeldInv, PointInv
<1>10. CASE RecordAnomalies \/ RecordAnomaliesFails \/ Tick \/ UNCHANGED vars
  <2>1. UNCHANGED <<process, pending, associations, engine, call>>
    BY <1>10 DEF RecordAnomalies, RecordAnomaliesFails, Tick, tables, vars
  <2> QED
    BY <2>1 DEF DetectionInv, HeldInv, PointInv
<1> QED
  BY <1>1, <1>2, <1>3, <1>4, <1>5, <1>6, <1>7, <1>8, <1>9, <1>10 DEF Next

\* An association that was recorded is in the engine (AssociationsAreInEngine), in
\* the track it was recorded under, before and after every restart, and no
\* detection is in two tracks, for any number of handlers, detections and crashes.
THEOREM RecordedIsFused == Spec => []AssociationsAreInEngine
<1>1. Spec => [](Core /\ SeatInv)
  BY CoreInit, CoreStep, SeatInit, SeatStep, PTL DEF Spec
<1> QED
  BY <1>1, SeatProperty, PTL

-----------------------------------------------------------------------------
(* One track per vessel                                                    *)

\* The index names a track that carries the MMSI, and knows every one carried.
Index(e) ==
    /\ \A m \in DOMAIN e.byMMSI :
          m # None /\ e.byMMSI[m] \in DOMAIN e.tracks /\ e.tracks[e.byMMSI[m]].mmsi = m
    /\ \A t \in DOMAIN e.tracks : e.tracks[t].mmsi # None => e.tracks[t].mmsi \in DOMAIN e.byMMSI

\* And until the first crash a detection that names a vessel sits in the track of one
\* it names.
IndexInv ==
    /\ Index(engine)
    /\ crashes = 0 =>
          /\ process = "serving"
          /\ \A t, c : Holds(engine, t, c) /\ retained[c].mmsi # None =>
                           engine.tracks[t].mmsi \in Names(c)

\* The index and the tracks name each other, and a track's points name its vessel.
Identified(e) ==
    /\ \A m \in DOMAIN e.byMMSI :
          m # None /\ e.byMMSI[m] \in DOMAIN e.tracks /\ e.tracks[e.byMMSI[m]].mmsi = m
    /\ \A t \in DOMAIN e.tracks :
          LET m == e.tracks[t].mmsi IN m # None => m \in DOMAIN e.byMMSI /\ e.byMMSI[m] = t
    /\ \A t, c : Holds(e, t, c) => retained[c].mmsi \in {None, e.tracks[t].mmsi}

\* The vessel that detection c names is indexed under track t.
Indexed(e, t, c) ==
    LET m == retained[c].mmsi IN m # None => m \in DOMAIN e.byMMSI /\ e.byMMSI[m] = t

\* The detection does not name a vessel other than the track's.
Fits(e, t, d) ==
    LET m == retained[d].mmsi IN
    m # None => /\ Known(e, t) \in {None, m}
                /\ m \in DOMAIN e.byMMSI => e.byMMSI[m] = t

\* What was fused or recorded is indexed; recorded detections that name a vessel
\* share a track exactly when they name the same one; during the replay only
\* recorded detections that were replayed are behind the index.
VesselInv ==
    /\ Identified(engine)
    /\ process # "down" =>
          \A n \in DOMAIN associations \ pending :
             Indexed(engine, associations[n].track, associations[n].det)
    /\ \A h \in Handlers :
          call[h] # None /\ call[h].phase # "admitted" => Indexed(engine, call[h].track, call[h].det)
    /\ \A m, n \in DOMAIN associations :
          /\ retained[associations[m].det].mmsi # None
          /\ retained[associations[n].det].mmsi # None
          => (associations[m].track = associations[n].track
                <=> retained[associations[m].det].mmsi = retained[associations[n].det].mmsi)
    /\ process = "replaying" =>
          \A m \in DOMAIN engine.byMMSI :
             \E n \in DOMAIN associations \ pending :
                /\ retained[associations[n].det].mmsi = m
                /\ associations[n].track = engine.byMMSI[m]

\* All payloads agree so far; a detection that is retained stays what it is.
Agreed == \A d \in DOMAIN retained : AISAgrees(d)

LEMMA VesselProperty == Core /\ IndexInv /\ (Agreed => VesselInv) => OneTrackPerVessel
<1> SUFFICES ASSUME Core, IndexInv, Agreed => VesselInv, Up PROVE OneTrackPerVessel
  BY DEF OneTrackPerVessel
<1>1. /\ \A m \in DOMAIN engine.byMMSI : engine.tracks[engine.byMMSI[m]].mmsi = m
      /\ \A t \in DOMAIN engine.tracks :
            engine.tracks[t].mmsi # None => engine.tracks[t].mmsi \in DOMAIN engine.byMMSI
  BY DEF IndexInv, Index
<1>2. ASSUME Agreed, NEW t \in DOMAIN engine.tracks
      PROVE  /\ engine.tracks[t].mmsi # None => engine.byMMSI[engine.tracks[t].mmsi] = t
             /\ \A d \in PointsOf(t) : retained[d].mmsi \in {None, engine.tracks[t].mmsi}
  <2>1. Identified(engine)
    BY <1>2 DEF VesselInv
  <2> QED
    BY <2>1 DEF Identified, Holds, PointsOf
<1>3. ASSUME crashes = 0, NEW t \in DOMAIN engine.tracks, NEW d \in PointsOf(t),
             retained[d].mmsi # None
      PROVE  engine.tracks[t].mmsi \in {retained[d].mmsi, retained[d].ais}
  BY <1>3 DEF IndexInv, Holds, PointsOf, Names
<1> QED
  BY <1>1, <1>2, <1>3 DEF OneTrackPerVessel, Agreed

\* A detection that fits its track keeps the identities.
LEMMA FusedIdentity ==
    ASSUME TableInv, NEW e, TracksOver(e, DOMAIN retained), Identified(e),
           NEW t, NEW d \in DOMAIN retained, AISAgrees(d), NEW f, Fused(e, f, t, d), Fits(e, t, d)
    PROVE  /\ Identified(f) /\ Indexed(f, t, d)
           /\ \A u, c : Indexed(e, u, c) => Indexed(f, u, c)
           /\ \A m \in DOMAIN f.byMMSI :
                 \/ m \in DOMAIN e.byMMSI /\ f.byMMSI[m] = e.byMMSI[m]
                 \/ m = retained[d].mmsi /\ f.byMMSI[m] = t
<1>1. PICK v : v = retained[d].mmsi
  OBVIOUS
<1>2. /\ DOMAIN f.tracks = DOMAIN e.tracks \cup {t}
      /\ \A u \in DOMAIN e.tracks \ {t} : f.tracks[u].mmsi = e.tracks[u].mmsi
      /\ Bound(e, f, t, d)
  BY DEF Fused, Same
<1>3. /\ t \in DOMAIN e.tracks => Known(e, t) = e.tracks[t].mmsi
      /\ t \notin DOMAIN e.tracks => Known(e, t) = None
  BY DEF Known
<1>4. \A u, c : Holds(f, u, c) => Holds(e, u, c) \/ (u = t /\ c = d)
  BY FusedSeats
<1>5. \A u \in DOMAIN e.tracks : u # t => f.tracks[u].mmsi = e.tracks[u].mmsi
  BY <1>2
<1>6. /\ \A m \in DOMAIN e.byMMSI :
            m # None /\ e.byMMSI[m] \in DOMAIN e.tracks /\ e.tracks[e.byMMSI[m]].mmsi = m
      /\ \A u \in DOMAIN e.tracks :
            e.tracks[u].mmsi # None =>
               e.tracks[u].mmsi \in DOMAIN e.byMMSI /\ e.byMMSI[e.tracks[u].mmsi] = u
      /\ \A u, c : Holds(e, u, c) => retained[c].mmsi \in {None, e.tracks[u].mmsi}
  BY DEF Identified
<1>7. \A u, c : Holds(e, u, c) => u \in DOMAIN e.tracks
  BY DEF Holds
<1>8. CASE Known(e, t) # None \/ v = None
  <2>1. f.tracks[t].mmsi = Known(e, t) /\ f.byMMSI = e.byMMSI
    BY <1>1, <1>2, <1>8 DEF Bound, Names, AISAgrees
  <2>2. v \in {None, Known(e, t)}
    BY <1>1, <1>8 DEF Fits
  <2>3. Identified(f)
    BY <1>1, <1>2, <1>3, <1>4, <1>5, <1>6, <1>7, <2>1, <2>2 DEF Identified
  <2>4. Indexed(f, t, d)
    BY <1>1, <1>3, <1>6, <2>1, <2>2 DEF Indexed
  <2> QED
    BY <2>1, <2>3, <2>4 DEF Indexed
<1>9. CASE Known(e, t) = None /\ v # None
  <2>1. f.tracks[t].mmsi = v /\ f.byMMSI = Put(e.byMMSI, v, t)
    BY <1>1, <1>2, <1>9 DEF Bound, Names, AISAgrees
  <2>2. v \notin DOMAIN e.byMMSI
    BY <1>1, <1>3, <1>6, <1>9 DEF Fits
  <2>3. /\ DOMAIN f.byMMSI = DOMAIN e.byMMSI \cup {v} /\ f.byMMSI[v] = t
        /\ \A m \in DOMAIN e.byMMSI : f.byMMSI[m] = e.byMMSI[m]
    BY <2>1, <2>2 DEF Put
  <2>4. \A m \in DOMAIN e.byMMSI : e.byMMSI[m] # t
    BY <1>3, <1>6, <1>9
  <2>5. Identified(f)
    BY <1>1, <1>2, <1>3, <1>4, <1>5, <1>6, <1>7, <1>9, <2>1, <2>2, <2>3, <2>4 DEF Identified
  <2>6. Indexed(f, t, d)
    BY <1>1, <2>3 DEF Indexed
  <2> QED
    BY <1>1, <2>3, <2>5, <2>6 DEF Indexed
<1> QED
  BY <1>8, <1>9

\* The track that associate chooses fits.
LEMMA AssociateFits ==
    ASSUME NEW d, d \notin DOMAIN engine.tracks, Index(engine), NEW t \in Associate(d)
    PROVE  Fits(engine, t, d)
<1>1. PICK v : v = retained[d].mmsi
  OBVIOUS
<1>2. CASE v \in DOMAIN engine.byMMSI
  <2>1. t = engine.byMMSI[v]
    BY <1>1, <1>2 DEF Associate
  <2> QED
    BY <1>1, <1>2, <2>1 DEF Fits, Known, Index
<1>3. CASE v \notin DOMAIN engine.byMMSI
  <2>1. t \in Candidates(retained[d]) \/ t = d
    BY <1>1, <1>3 DEF Associate
  <2>2. CASE t = d
    BY <1>1, <1>3, <2>2 DEF Fits, Known
  <2>3. CASE t \in Candidates(retained[d])
    BY <1>1, <1>3, <2>3 DEF Fits, Known, Candidates
  <2> QED
    BY <2>1, <2>2, <2>3
<1> QED
  BY <1>2, <1>3

\* Fusing keeps the index.
LEMMA FusedIndex ==
    ASSUME NEW e, Index(e), NEW t, NEW d, NEW f, Fused(e, f, t, d)
    PROVE  Index(f)
<1>1. /\ DOMAIN f.tracks = DOMAIN e.tracks \cup {t}
      /\ \A u \in DOMAIN e.tracks : u # t => f.tracks[u].mmsi = e.tracks[u].mmsi
      /\ Bound(e, f, t, d)
  BY DEF Fused, Same
<1>2. /\ t \in DOMAIN e.tracks => Known(e, t) = e.tracks[t].mmsi
      /\ t \notin DOMAIN e.tracks => Known(e, t) = None
  BY DEF Known
<1>3. CASE Known(e, t) # None \/ Names(d) = {}
  BY <1>1, <1>2, <1>3 DEF Bound, Index
<1>4. CASE Known(e, t) = None /\ Names(d) # {}
  <2>1. PICK m \in Names(d) : f.tracks[t].mmsi = m /\ f.byMMSI = Put(e.byMMSI, m, t)
    BY <1>1, <1>4 DEF Bound
  <2>2. m # None
    BY DEF Names
  <2>3. /\ DOMAIN f.byMMSI = DOMAIN e.byMMSI \cup {m} /\ f.byMMSI[m] = t
        /\ \A k \in DOMAIN e.byMMSI : k # m => f.byMMSI[k] = e.byMMSI[k]
    BY <2>1 DEF Put
  <2>4. \A k \in DOMAIN e.byMMSI : e.byMMSI[k] # t
    BY <1>2, <1>4 DEF Index
  <2> QED
    BY <1>1, <2>1, <2>2, <2>3, <2>4 DEF Index
<1> QED
  BY <1>3, <1>4

LEMMA IndexInit == Init => IndexInv
<1> SUFFICES ASSUME Init PROVE IndexInv
  OBVIOUS
<1>1. DOMAIN engine.tracks = {} /\ DOMAIN engine.byMMSI = {} /\ process = "serving"
  BY DEF Init, EmptyEngine
<1> QED
  BY <1>1 DEF IndexInv, Index, Holds

LEMMA IndexStep == Core /\ SeatInv /\ IndexInv /\ [Next]_vars => IndexInv'
<1> SUFFICES ASSUME Core, SeatInv, IndexInv, [Next]_vars PROVE IndexInv'
  OBVIOUS
<1>0. /\ TableInv /\ EngineInv /\ CallInv /\ TracksOver(engine, DOMAIN retained)
      /\ Index(engine) /\ crashes \in Nat
  BY DEF Core, EngineInv, TableInv, IndexInv
<1>1. ASSUME NEW h \in Handlers, NEW s \in Sightings, Admit(h, s)
      PROVE  IndexInv'
  <2>1. /\ \A c \in DOMAIN retained : retained'[c] = retained[c]
        /\ UNCHANGED <<process, engine, crashes>>
    BY <1>1, AdmitEffect
  <2>2. \A t, c : Holds(engine, t, c) => c \in DOMAIN retained
    BY <1>0 DEF TracksOver, Holds
  <2>3. Index(engine)'
    BY <1>0, <2>1 DEF Index
  <2>4. \A t, c : Holds(engine, t, c)' => Holds(engine, t, c)
    BY <2>1 DEF Holds
  <2> QED
    BY <2>1, <2>2, <2>3, <2>4 DEF IndexInv, Names
<1>2. ASSUME NEW h \in Handlers, Ingest(h)
      PROVE  IndexInv'
  <2>1. PICK d, t, met, b : IngestStep(h, d, t, met, b)
    BY <1>2, IngestEffect
  <2>2. /\ d \in DOMAIN retained /\ t \in Associate(d)
        /\ call[h] # None /\ call[h].phase = "admitted" /\ call[h].det = d
        /\ Fused(engine, engine', t, d)
        /\ UNCHANGED <<process, retained, crashes>>
    BY <2>1 DEF IngestStep, tables
  <2>3. d \notin DOMAIN engine.tracks
    BY <1>0, <2>2 DEF SeatInv, PointInv, CallInv
  <2>4. Fits(engine, t, d)
    BY <1>0, <2>2, <2>3, AssociateFits
  <2>5. Index(engine')
    BY <1>0, <2>2, FusedIndex
  <2>6. \A u, c : Holds(engine', u, c) => Holds(engine, u, c) \/ (u = t /\ c = d)
    BY <1>0, <2>2, FusedSeats
  <2>7. /\ \A u \in DOMAIN engine.tracks : u # t => engine'.tracks[u].mmsi = engine.tracks[u].mmsi
        /\ Bound(engine, engine', t, d)
    BY <2>2 DEF Fused, Same
  <2>8. ASSUME crashes = 0, NEW u, NEW c, Holds(engine', u, c), retained[c].mmsi # None
        PROVE  engine'.tracks[u].mmsi \in Names(c)
    <3>1. CASE Holds(engine, u, c) /\ u # t
      BY <2>7, <2>8, <3>1 DEF IndexInv, Holds
    <3>2. CASE Holds(engine, u, c) /\ u = t
      <4>1. engine.tracks[t].mmsi \in Names(c) /\ t \in DOMAIN engine.tracks
        BY <2>8, <3>2 DEF IndexInv, Holds
      <4>2. Known(engine, t) = engine.tracks[t].mmsi /\ Known(engine, t) # None
        BY <4>1 DEF Known, Names
      <4> QED
        BY <2>7, <3>2, <4>1, <4>2 DEF Bound
    <3>3. CASE u = t /\ c = d
      <4>1. retained[d].mmsi \in Names(d)
        BY <2>8, <3>3 DEF Names
      <4>2. Known(engine, t) \in {None, retained[d].mmsi}
        BY <2>4, <2>8, <3>3 DEF Fits
      <4> QED
        BY <2>7, <3>3, <4>1, <4>2 DEF Bound
    <3> QED
      BY <2>6, <2>8, <3>1, <3>2, <3>3
  <2>9. Index(engine)'
    BY <2>5 DEF Index
  <2>10. \A u, c : Holds(engine, u, c)' => Holds(engine', u, c)
    BY DEF Holds
  <2> QED
    BY <2>2, <2>8, <2>9, <2>10 DEF IndexInv, Names
<1>3. CASE ScanDarkVessels
  <2>1. Scanned(engine, engine', Dark)
    BY <1>3, ScanEffect
  <2>2. UNCHANGED <<process, retained, crashes>>
    BY <1>3 DEF ScanDarkVessels, tables
  <2>3. /\ DOMAIN engine'.tracks = DOMAIN engine.tracks /\ engine'.byMMSI = engine.byMMSI
        /\ \A t \in DOMAIN engine.tracks : engine'.tracks[t].mmsi = engine.tracks[t].mmsi
        /\ \A u, c : Holds(engine', u, c) => Holds(engine, u, c)
    BY <2>1, ScannedSeats DEF Scanned
  <2>4. \A t, c : Holds(engine, t, c) => t \in DOMAIN engine.tracks
    BY DEF Holds
  <2>5. Index(engine)'
    BY <1>0, <2>3 DEF Index
  <2>6. \A u, c : Holds(engine, u, c)' => Holds(engine, u, c)
    BY <2>3 DEF Holds
  <2> QED
    BY <2>2, <2>3, <2>4, <2>5, <2>6 DEF IndexInv, Names
<1>4. CASE Crash
  <2>1. /\ crashes' # 0 /\ DOMAIN engine'.tracks = {} /\ DOMAIN engine'.byMMSI = {}
    BY <1>0, <1>4 DEF Crash, EmptyEngine
  <2> QED
    BY <2>1 DEF IndexInv, Index
<1>5. CASE Restart \/ Serve
  <2>1. process # "serving" /\ UNCHANGED <<engine, crashes>>
    BY <1>5 DEF Restart, Serve
  <2> QED
    BY <1>0, <2>1 DEF IndexInv, Index
<1>6. CASE ReplayNext
  <2>1. PICK n \in DOMAIN associations : ReplayStep(n)
    BY <1>6, ReplayEffect
  <2>2. /\ process # "serving" /\ UNCHANGED crashes
        /\ Fused(engine, engine', associations[n].track, associations[n].det)
    BY <2>1 DEF ReplayStep
  <2>3. Index(engine')
    BY <1>0, <2>2, FusedIndex
  <2> QED
    BY <2>2, <2>3 DEF IndexInv, Index
<1>7. CASE \/ \E h \in Handlers : Snapshot(h) \/ RecordFusion(h) \/ RecordFusionFails(h)
           \/ RecordAnomalies \/ RecordAnomaliesFails \/ Tick \/ UNCHANGED vars
  <2>1. UNCHANGED <<process, retained, engine, crashes>>
    BY <1>7 DEF Snapshot, RecordFusion, RecordFusionFails, RecordAnomalies, RecordAnomaliesFails,
                Tick, tables, vars
  <2> QED
    BY <1>0, <2>1 DEF IndexInv, Index, Holds, Names
<1> QED
  BY <1>1, <1>2, <1>3, <1>4, <1>5, <1>6, <1>7 DEF Next

LEMMA VesselInit == Init => VesselInv
<1> SUFFICES ASSUME Init PROVE VesselInv
  OBVIOUS
<1>1. DOMAIN engine.tracks = {} /\ DOMAIN engine.byMMSI = {}
  BY DEF Init, EmptyEngine
<1>2. DOMAIN associations = {} /\ \A h \in Handlers : call[h] = None
  BY DEF Init
<1> QED
  BY <1>1, <1>2 DEF VesselInv, Identified, Holds

LEMMA VesselStep ==
    ASSUME Agreed, Core, SeatInv, IndexInv, VesselInv, [Next]_vars
    PROVE  VesselInv'
<1>0. TableInv /\ EngineInv /\ CallInv /\ TracksOver(engine, DOMAIN retained) /\ Identified(engine)
      /\ Index(engine)
  BY DEF Core, EngineInv, VesselInv, IndexInv
<1>1. ASSUME NEW h \in Handlers, NEW s \in Sightings, Admit(h, s)
      PROVE  VesselInv'
  <2>1. PICK d : d = Len(retained) + 1
    OBVIOUS
  <2>2. PICK x : x = [phase |-> "admitted", det |-> d]
    OBVIOUS
  <2>3. /\ SetCall(h, x)
        /\ \A c \in DOMAIN retained : retained'[c] = retained[c]
        /\ UNCHANGED <<now, process, pending, engine, rows, associations, anomalies, scan, crashes>>
    BY <1>1, <2>1, <2>2, AdmitEffect
  <2>4. /\ call'[h] = x /\ \A g \in Handlers : g # h => call'[g] = call[g]
    BY <1>0, <2>3, CallEffect
  <2>5. x.phase = "admitted"
    BY <2>2
  <2>6. \A n \in DOMAIN associations : associations[n].det \in DOMAIN retained
    BY <1>0 DEF TableInv
  <2>7. \A g \in Handlers : call[g] # None => call[g].det \in DOMAIN retained
    BY <1>0 DEF CallInv
  <2>8. \A t, c : Holds(engine, t, c) => c \in DOMAIN retained
    BY <1>0 DEF TracksOver, Holds
  <2>9. Identified(engine)'
    <3>1. \A t, c : Holds(engine', t, c) => Holds(engine, t, c)
      BY <2>3
    <3> QED
      BY <1>0, <2>3, <2>8, <3>1 DEF Identified
  <2>10. \A t, c : c \in DOMAIN retained /\ Indexed(engine, t, c) => Indexed(engine, t, c)'
    BY <2>3 DEF Indexed
  <2>11. process' # "down" =>
            \A n \in DOMAIN associations' \ pending' :
               Indexed(engine, associations[n].track, associations[n].det)'
    BY <2>3, <2>6, <2>10 DEF VesselInv
  <2>12. ASSUME NEW g \in Handlers, call'[g] # None, call'[g].phase # "admitted"
         PROVE  Indexed(engine, call[g].track, call[g].det)'
    <3>1. g # h /\ call'[g] = call[g]
      BY <2>4, <2>5, <2>12
    <3>2. Indexed(engine, call[g].track, call[g].det) /\ call[g].det \in DOMAIN retained
      BY <2>7, <2>12, <3>1 DEF VesselInv
    <3> QED
      BY <2>3, <3>1, <3>2 DEF Indexed
  <2> QED
    BY <2>3, <2>6, <2>9, <2>11, <2>12 DEF VesselInv
<1>2. ASSUME NEW h \in Handlers, Ingest(h)
      PROVE  VesselInv'
  <2>1. PICK d, t, met, b : IngestStep(h, d, t, met, b)
    BY <1>2, IngestEffect
  <2>2. PICK x : x = [phase |-> "fused", det |-> d, track |-> t, batch |-> b]
    OBVIOUS
  <2>3. /\ d \in DOMAIN retained /\ t \in Associate(d)
        /\ call[h] # None /\ call[h].phase = "admitted" /\ call[h].det = d
        /\ Fused(engine, engine', t, d) /\ SetCall(h, x)
        /\ UNCHANGED <<process, pending, retained, associations>>
    BY <2>1, <2>2 DEF IngestStep, tables
  <2>4. /\ call'[h] = x /\ \A g \in Handlers : g # h => call'[g] = call[g]
    BY <1>0, <2>3, CallEffect
  <2>5. x.det = d /\ x.track = t
    BY <2>2
  <2>6. d \notin DOMAIN engine.tracks /\ process = "serving"
    BY <1>0, <2>3 DEF SeatInv, PointInv, CallInv
  <2>7. Fits(engine, t, d)
    BY <1>0, <2>3, <2>6, AssociateFits
  <2>8. /\ Identified(engine') /\ Indexed(engine', t, d)
        /\ \A u, c : Indexed(engine, u, c) => Indexed(engine', u, c)
    BY <1>0, <2>3, <2>7, FusedIdentity DEF Agreed
  <2>9. Identified(engine)'
    BY <2>3, <2>8 DEF Identified
  <2>10. \A u, c : Indexed(engine, u, c)' <=> Indexed(engine', u, c)
    BY <2>3 DEF Indexed
  <2>11. \A n \in DOMAIN associations' \ pending' :
               Indexed(engine', associations'[n].track, associations'[n].det)
    BY <2>3, <2>6, <2>8 DEF VesselInv
  <2>12. \A g \in Handlers : call'[g] # None /\ call'[g].phase # "admitted" =>
            Indexed(engine', call'[g].track, call'[g].det)
    BY <2>4, <2>5, <2>8 DEF VesselInv
  <2> QED
    BY <2>3, <2>6, <2>9, <2>11, <2>12 DEF VesselInv, Indexed
<1>3. ASSUME NEW h \in Handlers, Snapshot(h) \/ RecordFusionFails(h)
      PROVE  VesselInv'
  <2>1. PICK x :
          /\ SetCall(h, x)
          /\ x # None => /\ call[h] # None /\ call[h].phase # "admitted"
                         /\ x.det = call[h].det /\ x.track = call[h].track
          /\ UNCHANGED <<process, pending, retained, associations, engine>>
    BY <1>0, <1>3, MoveEffect DEF CallMoves, tables
  <2>2. /\ call'[h] = x /\ \A g \in Handlers : g # h => call'[g] = call[g]
    BY <1>0, <2>1, CallEffect
  <2>3. \A g \in Handlers : call'[g] # None /\ call'[g].phase # "admitted" =>
           Indexed(engine, call'[g].track, call'[g].det)
    BY <2>1, <2>2 DEF VesselInv
  <2> QED
    BY <2>1, <2>3 DEF VesselInv, Identified, Indexed
<1>4. ASSUME NEW h \in Handlers, RecordFusion(h)
      PROVE  VesselInv'
  <2>1. PICK t, d, b : RecordStep(h, t, d, b)
    BY <1>4, RecordEffect
  <2>2. PICK k : k = Len(associations) + 1
    OBVIOUS
  <2>3. PICK a : a = [track |-> t, det |-> d]
    OBVIOUS
  <2>4. a.track = t /\ a.det = d
    BY <2>3
  <2>5. /\ call[h] # None /\ call[h].phase = "snapshot" /\ call[h].track = t /\ call[h].det = d
        /\ DOMAIN associations' = DOMAIN associations \cup {k}
        /\ associations'[k] = a
        /\ \A n \in DOMAIN associations : associations'[n] = associations[n]
        /\ UNCHANGED <<process, pending, retained, engine>>
    BY <2>1, <2>2, <2>3 DEF RecordStep
  <2>6. /\ call'[h] = None /\ \A g \in Handlers : g # h => call'[g] = call[g]
    BY <1>0, <2>1, CallEffect DEF RecordStep
  <2>7. process = "serving" /\ pending = {}
    BY <1>0, <2>5 DEF CallInv, TableInv
  <2>8. Indexed(engine, t, d)
    BY <2>5 DEF VesselInv
  <2>9. \A n \in DOMAIN associations' : Indexed(engine, associations'[n].track, associations'[n].det)
    BY <2>4, <2>5, <2>7, <2>8 DEF VesselInv
  <2>10. \A g \in Handlers : call'[g] # None /\ call'[g].phase # "admitted" =>
           Indexed(engine, call'[g].track, call'[g].det)
    BY <2>6 DEF VesselInv
  <2>11. ASSUME NEW m \in DOMAIN associations', NEW n \in DOMAIN associations',
                retained[associations'[m].det].mmsi # None,
                retained[associations'[n].det].mmsi # None
         PROVE  associations'[m].track = associations'[n].track
                  <=> retained[associations'[m].det].mmsi = retained[associations'[n].det].mmsi
    <3>1. PICK v : v = retained[associations'[m].det].mmsi
      OBVIOUS
    <3>2. PICK w : w = retained[associations'[n].det].mmsi
      OBVIOUS
    <3>3. /\ v \in DOMAIN engine.byMMSI /\ engine.byMMSI[v] = associations'[m].track
          /\ w \in DOMAIN engine.byMMSI /\ engine.byMMSI[w] = associations'[n].track
      BY <2>9, <2>11, <3>1, <3>2 DEF Indexed
    <3> QED
      BY <1>0, <3>1, <3>2, <3>3 DEF Identified
  <2> QED
    BY <1>0, <2>5, <2>7, <2>9, <2>10, <2>11 DEF VesselInv, Identified, Indexed
<1>5. CASE ScanDarkVessels
  <2>1. Scanned(engine, engine', Dark)
    BY <1>5, ScanEffect
  <2>2. UNCHANGED <<process, pending, retained, associations, call>>
    BY <1>5 DEF ScanDarkVessels, tables
  <2>3. /\ DOMAIN engine'.tracks = DOMAIN engine.tracks /\ engine'.byMMSI = engine.byMMSI
        /\ \A t \in DOMAIN engine.tracks : engine'.tracks[t].mmsi = engine.tracks[t].mmsi
        /\ \A u, c : Holds(engine', u, c) => Holds(engine, u, c)
    BY <2>1, ScannedSeats DEF Scanned
  <2>4. \A t, c : Holds(engine, t, c) => t \in DOMAIN engine.tracks
    BY DEF Holds
  <2>5. Identified(engine)'
    BY <1>0, <2>2, <2>3, <2>4 DEF Identified
  <2> QED
    BY <2>2, <2>3, <2>5 DEF VesselInv, Indexed
<1>6. CASE Crash
  <2>1. /\ process' = "down" /\ UNCHANGED <<retained, associations>>
        /\ DOMAIN engine'.tracks = {} /\ DOMAIN engine'.byMMSI = {}
        /\ \A h \in Handlers : call'[h] = None
    BY <1>6 DEF Crash, tables, EmptyEngine
  <2>2. Identified(engine)'
    BY <2>1 DEF Identified, Holds
  <2> QED
    BY <2>1, <2>2 DEF VesselInv
<1>7. CASE Restart
  <2>1. /\ process = "down" /\ pending' = DOMAIN associations
        /\ UNCHANGED <<retained, associations, engine, call>>
    BY <1>7 DEF Restart, tables
  <2>2. DOMAIN engine.byMMSI = {} /\ \A h \in Handlers : call[h] = None
    BY <1>0, <2>1 DEF EngineInv, EmptyEngine, CallInv
  <2> QED
    BY <1>0, <2>1, <2>2 DEF VesselInv, Identified
<1>8. CASE ReplayNext
  <2>1. PICK n \in DOMAIN associations : ReplayStep(n)
    BY <1>8, ReplayEffect
  <2>2. PICK t : t = associations[n].track
    OBVIOUS
  <2>3. PICK d : d = associations[n].det
    OBVIOUS
  <2>4. /\ process = "replaying" /\ n \in pending /\ Fused(engine, engine', t, d)
        /\ pending' = pending \ {n} /\ UNCHANGED <<process, retained, associations, call>>
    BY <2>1, <2>2, <2>3 DEF ReplayStep, tables
  <2>5. d \in DOMAIN retained /\ \A h \in Handlers : call[h] = None
    BY <1>0, <2>3, <2>4 DEF TableInv, CallInv
  <2>6. Fits(engine, t, d)
    <3>1. PICK v : v = retained[d].mmsi
      OBVIOUS
    <3>2. ASSUME v # None, v \in DOMAIN engine.byMMSI
          PROVE  engine.byMMSI[v] = t
      <4>1. PICK k \in DOMAIN associations \ pending :
               retained[associations[k].det].mmsi = v /\ associations[k].track = engine.byMMSI[v]
        BY <2>4, <3>2 DEF VesselInv
      <4> QED
        BY <2>2, <2>3, <3>1, <3>2, <4>1 DEF VesselInv
    <3>3. ASSUME v # None, t \in DOMAIN engine.tracks, engine.tracks[t].mmsi # None
          PROVE  engine.tracks[t].mmsi = v
      <4>1. PICK w : w = engine.tracks[t].mmsi
        OBVIOUS
      <4>2. w \in DOMAIN engine.byMMSI /\ engine.byMMSI[w] = t
        BY <1>0, <3>3, <4>1 DEF Identified
      <4>3. PICK k \in DOMAIN associations \ pending :
               retained[associations[k].det].mmsi = w /\ associations[k].track = t
        BY <2>4, <4>2 DEF VesselInv
      <4>4. w # None
        BY <3>3, <4>1
      <4> QED
        BY <2>2, <2>3, <3>1, <3>3, <4>1, <4>3, <4>4 DEF VesselInv
    <3> QED
      BY <3>1, <3>2, <3>3 DEF Fits, Known
  <2>7. /\ Identified(engine') /\ Indexed(engine', t, d)
        /\ \A u, c : Indexed(engine, u, c) => Indexed(engine', u, c)
        /\ \A m \in DOMAIN engine'.byMMSI :
              \/ m \in DOMAIN engine.byMMSI /\ engine'.byMMSI[m] = engine.byMMSI[m]
              \/ m = retained[d].mmsi /\ engine'.byMMSI[m] = t
    BY <1>0, <2>4, <2>5, <2>6, FusedIdentity DEF Agreed
  <2>8. \A k \in DOMAIN associations \ (pending \ {n}) :
           Indexed(engine', associations[k].track, associations[k].det)
    BY <2>2, <2>3, <2>4, <2>7 DEF VesselInv
  <2>9. ASSUME NEW m \in DOMAIN engine'.byMMSI
        PROVE  \E k \in DOMAIN associations \ (pending \ {n}) :
                  /\ retained[associations[k].det].mmsi = m
                  /\ associations[k].track = engine'.byMMSI[m]
    BY <2>2, <2>3, <2>4, <2>7 DEF VesselInv
  <2>10. Identified(engine)'
    BY <2>4, <2>7 DEF Identified
  <2> QED
    BY <2>4, <2>5, <2>8, <2>9, <2>10 DEF VesselInv, Indexed
<1>9. CASE Serve
  <2>1. /\ process = "replaying" /\ process' = "serving"
        /\ UNCHANGED <<pending, retained, associations, engine, call>>
    BY <1>9 DEF Serve, tables
  <2> QED
    BY <1>0, <2>1 DEF VesselInv, Identified, Indexed
<1>10. CASE RecordAnomalies \/ RecordAnomaliesFails \/ Tick \/ UNCHANGED vars
  <2>1. UNCHANGED <<process, pending, retained, associations, engine, call>>
    BY <1>10 DEF RecordAnomalies, RecordAnomaliesFails, Tick, tables, vars
  <2> QED
    BY <1>0, <2>1 DEF VesselInv, Identified, Indexed
<1> QED
  BY <1>1, <1>2, <1>3, <1>4, <1>5, <1>6, <1>7, <1>8, <1>9, <1>10 DEF Next

\* While the payloads agree, they agreed before.
LEMMA AgreedBefore == Core /\ [Next]_vars /\ Agreed' => Agreed
<1> SUFFICES ASSUME Core, [Next]_vars, Agreed' PROVE Agreed
  OBVIOUS
<1>1. /\ DOMAIN retained \subseteq DOMAIN retained'
      /\ \A c \in DOMAIN retained : retained'[c] = retained[c]
  <2>1. ASSUME NEW h \in Handlers, NEW s \in Sightings, Admit(h, s)
        PROVE  /\ DOMAIN retained \subseteq DOMAIN retained'
               /\ \A c \in DOMAIN retained : retained'[c] = retained[c]
    BY <2>1, AdmitEffect
  <2>2. CASE UNCHANGED retained
    BY <2>2
  <2>3. \/ \E h \in Handlers : \E s \in Sightings : Admit(h, s)
        \/ UNCHANGED retained
    BY DEF Next, Ingest, Snapshot, RecordFusion, RecordFusionFails, ScanDarkVessels,
           RecordAnomalies, RecordAnomaliesFails, Tick, Crash, Restart, ReplayNext, Serve,
           tables, vars
  <2> QED
    BY <2>1, <2>2, <2>3
<1> QED
  BY <1>1 DEF Agreed, AISAgrees

\* The MMSI index and the tracks name each other; while all AIS payloads agree, a
\* vessel has one track and every detection that names it sits there; until the
\* first crash a detection sits in the track of a vessel it names
\* (OneTrackPerVessel), for any number of racing handlers, lost writes and restarts.
THEOREM VesselsKeepTheirTracks == Spec => []OneTrackPerVessel
<1>1. Core /\ SeatInv /\ IndexInv /\ (Agreed => VesselInv) /\ [Next]_vars
         => (Agreed => VesselInv)'
  BY VesselStep, AgreedBefore
<1>2. Init => (Agreed => VesselInv)
  BY VesselInit
<1>3. Spec => [](Core /\ SeatInv /\ IndexInv /\ (Agreed => VesselInv))
  BY <1>1, <1>2, CoreInit, CoreStep, SeatInit, SeatStep, IndexInit, IndexStep, PTL DEF Spec
<1> QED
  BY <1>3, VesselProperty, PTL

-----------------------------------------------------------------------------
(* A dark-vessel alert is true                                             *)

Report(c) == retained[c].ais # None

\* The report taken last among some points was observed at that time.
LastReport(points, at) ==
    (\E n \in DOMAIN points : Report(points[n])) =>
        \E k \in DOMAIN points :
            /\ Report(points[k]) /\ retained[points[k]].at = at
            /\ \A m \in DOMAIN points : Report(points[m]) => m <= k

\* lastAISAt is the time of the report that each track took last.
ReportInv ==
    \A t \in DOMAIN engine.tracks :
        LastReport(engine.tracks[t].points, engine.tracks[t].lastAISAt)

\* It stays so when a point is added, also when the first one is dropped for it.
LEMMA GrownReport ==
    ASSUME NEW points \in Seq(Nat), NEW new \in Seq(Nat), new # <<>>, NEW d,
           PointsGrow(new, points, d), NEW at, LastReport(points, at)
    PROVE  LastReport(new, LastAISAt(at, retained[d]))
<1>1. PICK k \in {0, 1} :
        /\ Len(new) = Len(points) + 1 - k
        /\ new[Len(new)] = d
        /\ \A n \in 1..(Len(new) - 1) : new[n] = points[n + k]
  BY DEF PointsGrow
<1>2. PICK i \in Nat : i = Len(points)
  OBVIOUS
<1>3. PICK j \in Nat : j = Len(new)
  OBVIOUS
<1>4. DOMAIN points = 1..i /\ DOMAIN new = 1..j /\ j = i + 1 - k /\ j >= 1 /\ k \in Nat
  BY <1>1, <1>2, <1>3
<1>5. CASE Report(d)
  <2>1. LastAISAt(at, retained[d]) = retained[d].at
    BY <1>5 DEF LastAISAt, Report
  <2>2. j \in DOMAIN new /\ new[j] = d /\ \A m \in DOMAIN new : m <= j
    BY <1>1, <1>3, <1>4
  <2> QED
    BY <1>5, <2>1, <2>2 DEF LastReport
<1>6. CASE ~Report(d)
  <2>1. LastAISAt(at, retained[d]) = at
    BY <1>6 DEF LastAISAt, Report
  <2>2. SUFFICES ASSUME NEW n \in DOMAIN new, Report(new[n])
                 PROVE  \E q \in DOMAIN new :
                           /\ Report(new[q]) /\ retained[new[q]].at = at
                           /\ \A m \in DOMAIN new : Report(new[m]) => m <= q
    BY <2>1 DEF LastReport
  <2>3. \A m \in DOMAIN new : Report(new[m]) =>
           m \in 1..(j - 1) /\ new[m] = points[m + k] /\ m + k \in DOMAIN points
    <3>1. ASSUME NEW m \in DOMAIN new, Report(new[m])
          PROVE  m \in 1..(j - 1)
      <4>1. m # j
        BY <1>1, <1>3, <1>6, <3>1
      <4> QED
        BY <1>4, <4>1
    <3>2. \A m \in 1..(j - 1) : new[m] = points[m + k]
      BY <1>1, <1>3
    <3>3. \A m \in 1..(j - 1) : m + k \in 1..i
      BY <1>4
    <3> QED
      BY <1>4, <3>1, <3>2, <3>3
  <2>4. PICK p \in DOMAIN points :
          /\ Report(points[p]) /\ retained[points[p]].at = at
          /\ \A m \in DOMAIN points : Report(points[m]) => m <= p
    BY <2>2, <2>3 DEF LastReport
  <2>5. n + k <= p
    BY <2>2, <2>3, <2>4
  <2>6. p - k \in 1..(j - 1) /\ (p - k) + k = p
    <3>1. n \in Nat /\ n >= 1 /\ p \in Nat /\ p <= i
      BY <1>4
    <3>2. k \in Nat /\ j = i + 1 - k
      BY <1>4
    <3>3. p - k \in Int /\ p - k >= n /\ p - k <= i - k /\ (p - k) + k = p
      BY <2>5, <3>1, <3>2
    <3>4. p - k >= 1 /\ p - k <= j - 1
      BY <3>1, <3>2, <3>3
    <3> QED
      BY <3>3, <3>4
  <2>7. new[p - k] = points[p]
    BY <1>1, <1>3, <2>6
  <2>8. ASSUME NEW m \in DOMAIN new, Report(new[m])
        PROVE  m <= p - k
    <3>1. m + k <= p
      BY <2>3, <2>4, <2>8
    <3> QED
      BY <1>4, <3>1
  <2>9. p - k \in DOMAIN new
    BY <1>4, <2>6
  <2> QED
    BY <2>4, <2>7, <2>8, <2>9
<1> QED
  BY <1>5, <1>6

LEMMA FusedReport ==
    ASSUME TableInv, NEW e, TracksOver(e, DOMAIN retained), NEW t, NEW d \in DOMAIN retained,
           NEW f, Fused(e, f, t, d),
           \A u \in DOMAIN e.tracks : LastReport(e.tracks[u].points, e.tracks[u].lastAISAt)
    PROVE  \A u \in DOMAIN f.tracks : LastReport(f.tracks[u].points, f.tracks[u].lastAISAt)
<1>1. PICK new : new = f.tracks[t].points
  OBVIOUS
<1>2. PICK old : old = PointsIn(e, t)
  OBVIOUS
<1>3. PICK at : at = AISAt(e, t)
  OBVIOUS
<1>4. old \in Seq(Nat) /\ new \in Seq(Nat) /\ new # <<>> /\ PointsGrow(new, old, d)
  BY <1>1, <1>2, FusedPoints
<1>5. LastReport(old, at)
  <2>1. CASE t \in DOMAIN e.tracks
    BY <1>2, <1>3, <2>1 DEF PointsIn, AISAt
  <2>2. CASE t \notin DOMAIN e.tracks
    <3>1. DOMAIN old = {}
      BY <1>2, <2>2 DEF PointsIn
    <3> QED
      BY <3>1 DEF LastReport
  <2> QED
    BY <2>1, <2>2
<1>6. LastReport(new, LastAISAt(at, retained[d]))
  BY <1>4, <1>5, GrownReport
<1>7. f.tracks[t].lastAISAt = LastAISAt(at, retained[d])
  BY <1>3 DEF Fused, Grown
<1>8. /\ DOMAIN f.tracks = DOMAIN e.tracks \cup {t}
      /\ \A u \in DOMAIN e.tracks \ {t} :
            f.tracks[u].points = e.tracks[u].points /\ f.tracks[u].lastAISAt = e.tracks[u].lastAISAt
  BY DEF Fused, Same
<1> QED
  BY <1>1, <1>6, <1>7, <1>8

LEMMA ReportInit == Init => ReportInv
<1> SUFFICES ASSUME Init PROVE ReportInv
  OBVIOUS
<1>1. DOMAIN engine.tracks = {}
  BY DEF Init, EmptyEngine
<1> QED
  BY <1>1 DEF ReportInv

LEMMA ReportStep == Core /\ ReportInv /\ [Next]_vars => ReportInv'
<1> SUFFICES ASSUME Core, ReportInv, [Next]_vars PROVE ReportInv'
  OBVIOUS
<1>0. TableInv /\ TracksOver(engine, DOMAIN retained)
  BY DEF Core, EngineInv
<1>1. ASSUME NEW t, NEW d \in DOMAIN retained, Fused(engine, engine', t, d), retained' = retained
      PROVE  ReportInv'
  <2>1. \A u \in DOMAIN engine'.tracks :
           LastReport(engine'.tracks[u].points, engine'.tracks[u].lastAISAt)
    BY <1>0, <1>1, FusedReport DEF ReportInv
  <2> QED
    BY <1>1, <2>1 DEF ReportInv, LastReport, Report
<1>2. ASSUME UNCHANGED <<engine, retained>>
      PROVE  ReportInv'
  BY <1>2 DEF ReportInv, LastReport, Report
<1>3. ASSUME NEW h \in Handlers, NEW s \in Sightings, Admit(h, s)
      PROVE  ReportInv'
  <2>1. engine' = engine /\ \A c \in DOMAIN retained : retained'[c] = retained[c]
    BY <1>3, AdmitEffect
  <2>2. ASSUME NEW t \in DOMAIN engine.tracks
        PROVE  LastReport(engine.tracks[t].points, engine.tracks[t].lastAISAt)'
    <3>1. PICK points : points = engine.tracks[t].points
      OBVIOUS
    <3>2. \A n \in DOMAIN points : points[n] \in DOMAIN retained
      BY <1>0, <3>1 DEF TracksOver, Range
    <3>3. LastReport(points, engine.tracks[t].lastAISAt)
      BY <3>1 DEF ReportInv
    <3> QED
      BY <2>1, <3>1, <3>2, <3>3 DEF LastReport, Report
  <2> QED
    BY <2>1, <2>2 DEF ReportInv
<1>4. ASSUME NEW h \in Handlers, Ingest(h)
      PROVE  ReportInv'
  <2>1. PICK d, t, met, b : IngestStep(h, d, t, met, b)
    BY <1>4, IngestEffect
  <2> QED
    BY <1>1, <2>1 DEF IngestStep, tables
<1>5. CASE ReplayNext
  <2>1. PICK n \in DOMAIN associations : ReplayStep(n)
    BY <1>5, ReplayEffect
  <2> QED
    BY <1>0, <1>1, <2>1 DEF ReplayStep, tables, TableInv
<1>6. CASE ScanDarkVessels
  <2>1. Scanned(engine, engine', Dark) /\ retained' = retained
    BY <1>6, ScanEffect DEF ScanDarkVessels, tables
  <2>2. /\ DOMAIN engine'.tracks = DOMAIN engine.tracks
        /\ \A t \in DOMAIN engine.tracks :
              /\ engine'.tracks[t].points = engine.tracks[t].points
              /\ engine'.tracks[t].lastAISAt = engine.tracks[t].lastAISAt
    BY <2>1 DEF Scanned
  <2> QED
    BY <2>1, <2>2 DEF ReportInv, LastReport, Report
<1>7. CASE Crash
  <2>1. DOMAIN engine'.tracks = {}
    BY <1>7 DEF Crash, EmptyEngine
  <2> QED
    BY <2>1 DEF ReportInv
<1>8. ASSUME NEW h \in Handlers, Snapshot(h) \/ RecordFusion(h) \/ RecordFusionFails(h)
      PROVE  ReportInv'
  BY <1>2, <1>8 DEF Snapshot, RecordFusion, RecordFusionFails, tables
<1>9. CASE RecordAnomalies \/ RecordAnomaliesFails \/ Tick \/ Restart \/ Serve \/ UNCHANGED vars
  BY <1>2, <1>9 DEF RecordAnomalies, RecordAnomaliesFails, Tick, Restart, Serve, tables, vars
<1> QED
  BY <1>3, <1>4, <1>5, <1>6, <1>7, <1>8, <1>9 DEF Next

\* What DarkAlertIsTrue says of a step.
TrueAlert ==
    \A a \in scan' \ scan :
        LET at(n) == retained[engine.tracks[a.track].points[n]].at
            reports == Reports(a.track)
        IN  (\A m, n \in reports : m < n => at(m) <= at(n)) =>
                \A n \in reports : now - at(n) >= DarkVesselAISGap

LEMMA AlertsAreTrue == Core /\ ReportInv /\ [Next]_vars => TrueAlert
<1> SUFFICES ASSUME Core, ReportInv, [Next]_vars, NEW a \in scan', a \notin scan PROVE
        LET at(n) == retained[engine.tracks[a.track].points[n]].at
            reports == Reports(a.track)
        IN  (\A m, n \in reports : m < n => at(m) <= at(n)) =>
                \A n \in reports : now - at(n) >= DarkVesselAISGap
  BY DEF TrueAlert
<1>1. ScanDarkVessels
  BY DEF Next, vars, Admit, Ingest, Snapshot, RecordFusion, RecordFusionFails, RecordAnomalies,
         RecordAnomaliesFails, Tick, Crash, Restart, ReplayNext, Serve
<1>2. PICK t \in Dark : a = DarkAnomaly(t)
  BY <1>1, ScanEffect
<1>3. a.track = t
  BY <1>2 DEF DarkAnomaly
<1>4. PICK points : points = engine.tracks[t].points
  OBVIOUS
<1>5. PICK last : last = engine.tracks[t].lastAISAt
  OBVIOUS
<1>6. t \in DOMAIN engine.tracks /\ now - last >= DarkVesselAISGap
  BY <1>2, <1>5 DEF Dark
<1>7. /\ last \in Int /\ now \in Int /\ DarkVesselAISGap \in Nat
      /\ points \in Seq(Nat) /\ \A n \in DOMAIN points : points[n] \in DOMAIN retained
  BY <1>4, <1>5, <1>6, BoundsAssumption, ConfigAssumption
     DEF Core, TableInv, EngineInv, TracksOver, Range
<1>8. \A n \in DOMAIN points : n \in Nat /\ retained[points[n]].at \in Nat
  BY <1>7, DetectionFacts DEF Core
<1>9. LastReport(points, last)
  BY <1>4, <1>5, <1>6 DEF ReportInv
<1>10. Reports(t) = {n \in DOMAIN points : Report(points[n])}
  BY <1>4 DEF Reports, Report
<1> DEFINE at(n) == retained[points[n]].at
<1>11. ASSUME \A m, n \in Reports(t) : m < n => at(m) <= at(n), NEW n \in Reports(t)
       PROVE  now - at(n) >= DarkVesselAISGap
  <2>1. PICK k \in DOMAIN points :
          /\ Report(points[k]) /\ at(k) = last
          /\ \A m \in DOMAIN points : Report(points[m]) => m <= k
    BY <1>9, <1>10, <1>11 DEF LastReport
  <2>2. k \in Reports(t) /\ n \in DOMAIN points /\ n <= k
    BY <1>10, <2>1
  <2>3. at(n) \in Nat /\ n \in Nat /\ k \in Nat
    BY <1>8, <2>2
  <2>4. at(n) <= last
    <3>1. CASE n = k
      BY <2>1, <2>3, <3>1
    <3>2. CASE n # k
      <4>1. n < k
        BY <2>2, <2>3, <3>2
      <4> QED
        BY <1>11, <2>1, <2>2, <4>1
    <3> QED
      BY <3>1, <3>2
  <2> HIDE DEF at
  <2> QED
    BY <1>6, <1>7, <2>3, <2>4
<1> QED
  BY <1>3, <1>4, <1>11

\* A scan announces no vessel whose newest AIS report is younger than the gap
\* (DarkAlertIsTrue), for any number of points, dropped points and restarts, when
\* the track's reports came in the order of observation.
THEOREM AlertedVesselIsDark == Spec => DarkAlertIsTrue
<1>1. Core /\ ReportInv /\ [Next]_vars => [TrueAlert]_vars
  BY AlertsAreTrue
<1>2. Spec => [](Core /\ ReportInv)
  BY CoreInit, CoreStep, ReportInit, ReportStep, PTL DEF Spec
<1>3. Spec => [][TrueAlert]_vars
  BY <1>1, <1>2, PTL DEF Spec
<1> QED
  BY <1>3 DEF DarkAlertIsTrue, TrueAlert

-----------------------------------------------------------------------------
(* Reads are cleared                                                       *)

\* The label of the track covers the detection.
Covered(e, t, c) == t \in DOMAIN e.tracks /\ retained[c].label <= e.tracks[t].label

\* The label of an anomaly covers the detection that raised it.
Covers(a) == a.stamp[2] \in DOMAIN retained /\ retained[a.stamp[2]].label <= a.label

\* Labels cover what the engine holds, what was recorded and what is announced.
CoverInv ==
    /\ \A t, c : Holds(engine, t, c) => Covered(engine, t, c)
    /\ process # "down" =>
          \A n \in DOMAIN associations \ pending :
             Covered(engine, associations[n].track, associations[n].det)
    /\ \A h \in Handlers : call[h] # None /\ call[h].phase # "admitted" =>
          /\ Covered(engine, call[h].track, call[h].det)
          /\ \A n \in DOMAIN call[h].batch :
                call[h].batch[n] # None => Covers(call[h].batch[n])
    /\ \A a \in anomalies : a.stamp[1] = "ingest" => Covers(a)
    /\ \A a \in scan : a.stamp[1] = "scan"

\* What the reader's clearance means for a listing.
LEMMA ReaderFacts ==
    ASSUME NEW clearance \in 0..3, NEW reader,
           reader = [roles |-> {"nn-officer"}, clearance |-> clearance]
    PROVE  /\ \A label : CanReadTracks(reader, label) => clearance >= label
           /\ \A rows_, a : a \in Listed(reader, rows_) => a \in rows_ /\ clearance >= a.label
<1>1. reader.clearance = clearance
  OBVIOUS
<1> QED
  BY <1>1 DEF CanReadTracks, Listed

LEMMA ClearedProperty == Core /\ CoverInv => ListedIsCleared
<1> SUFFICES ASSUME Core, CoverInv PROVE ListedIsCleared
  OBVIOUS
<1>0. TableInv /\ Ranked(engine)
  BY DEF Core, EngineInv, TracksOver
<1>1. \A d \in DOMAIN retained : retained[d].label \in 0..3
  BY <1>0, DetectionFacts
<1>2. ASSUME NEW clearance \in 0..3, NEW reader,
             reader = [roles |-> {"nn-officer"}, clearance |-> clearance]
      PROVE  /\ \A t \in ListTracks(reader) : \A d \in PointsOf(t) : retained[d].label <= clearance
             /\ \A a \in Listed(reader, anomalies) :
                   a.stamp[1] = "ingest" => retained[a.stamp[2]].label <= clearance
  <2>1. /\ \A label : CanReadTracks(reader, label) => clearance >= label
        /\ \A rows_, a : a \in Listed(reader, rows_) => a \in rows_ /\ clearance >= a.label
    BY <1>2, ReaderFacts
  <2>2. ASSUME NEW t \in ListTracks(reader), NEW d \in PointsOf(t)
        PROVE  retained[d].label <= clearance
    <3>1. t \in DOMAIN engine.tracks /\ clearance >= engine.tracks[t].label
      BY <2>1 DEF ListTracks
    <3>2. Holds(engine, t, d)
      BY <3>1 DEF Holds, PointsOf
    <3>3. retained[d].label <= engine.tracks[t].label /\ d \in DOMAIN retained
      BY <3>2 DEF CoverInv, Covered, Core, EngineInv, TracksOver, Holds
    <3>4. retained[d].label \in 0..3 /\ engine.tracks[t].label \in 0..3
      BY <1>0, <1>1, <3>1, <3>3 DEF Ranked
    <3> QED
      BY <3>1, <3>3, <3>4
  <2>3. ASSUME NEW a \in Listed(reader, anomalies), a.stamp[1] = "ingest"
        PROVE  retained[a.stamp[2]].label <= clearance
    <3>1. a \in anomalies /\ clearance >= a.label
      BY <2>1
    <3>2. Covers(a)
      BY <2>3, <3>1 DEF CoverInv
    <3>3. a.label \in 0..3
      BY <1>0, <3>1 DEF TableInv, Anomaly
    <3> QED
      BY <1>1, <3>1, <3>2, <3>3 DEF Covers
  <2> QED
    BY <2>2, <2>3
<1> QED
  BY <1>2 DEF ListedIsCleared

\* A detection that is taken is covered, and labels only rise.
LEMMA FusedCovers ==
    ASSUME TableInv, NEW e, TracksOver(e, DOMAIN retained), NEW t, NEW d \in DOMAIN retained,
           NEW f, Fused(e, f, t, d)
    PROVE  /\ Covered(f, t, d)
           /\ \A u, c : c \in DOMAIN retained /\ Covered(e, u, c) => Covered(f, u, c)
<1>1. /\ DOMAIN f.tracks = DOMAIN e.tracks \cup {t}
      /\ \A u \in DOMAIN e.tracks \ {t} : f.tracks[u].label = e.tracks[u].label
      /\ f.tracks[t].label \in 0..3 /\ retained[d].label <= f.tracks[t].label
      /\ t \in DOMAIN e.tracks => e.tracks[t].label <= f.tracks[t].label
  BY DEF Fused, Same, Grown
<1>2. ASSUME NEW u, NEW c \in DOMAIN retained, Covered(e, u, c)
      PROVE  Covered(f, u, c)
  <2>1. u \in DOMAIN e.tracks /\ retained[c].label <= e.tracks[u].label
    BY <1>2 DEF Covered
  <2>2. retained[c].label \in 0..3 /\ e.tracks[u].label \in 0..3
    BY <2>1, DetectionFacts DEF TracksOver, Ranked
  <2>3. CASE u = t
    BY <1>1, <2>1, <2>2, <2>3 DEF Covered
  <2>4. CASE u # t
    BY <1>1, <2>1, <2>4 DEF Covered
  <2> QED
    BY <2>3, <2>4
<1> QED
  BY <1>1, <1>2 DEF Covered

LEMMA CoverInit == Init => CoverInv
<1> SUFFICES ASSUME Init PROVE CoverInv
  OBVIOUS
<1>1. DOMAIN engine.tracks = {} /\ anomalies = {} /\ scan = {}
  BY DEF Init, EmptyEngine
<1>2. DOMAIN associations = {} /\ \A h \in Handlers : call[h] = None
  BY DEF Init
<1> QED
  BY <1>1, <1>2 DEF CoverInv, Holds

LEMMA CoverStep == Core /\ SeatInv /\ CoverInv /\ [Next]_vars => CoverInv'
<1> SUFFICES ASSUME Core, SeatInv, CoverInv, [Next]_vars PROVE CoverInv'
  OBVIOUS
<1>0. TableInv /\ EngineInv /\ CallInv /\ TracksOver(engine, DOMAIN retained)
  BY DEF Core, EngineInv
<1>a. \A t, c : Holds(engine, t, c) => c \in DOMAIN retained
  BY <1>0 DEF TracksOver, Holds
<1>b. \A n \in DOMAIN associations : associations[n].det \in DOMAIN retained
  BY <1>0 DEF TableInv
<1>c. \A g \in Handlers : call[g] # None => call[g].det \in DOMAIN retained
  BY <1>0 DEF CallInv
<1>1. ASSUME NEW h \in Handlers, NEW s \in Sightings, Admit(h, s)
      PROVE  CoverInv'
  <2>1. PICK d : d = Len(retained) + 1
    OBVIOUS
  <2>2. PICK x : x = [phase |-> "admitted", det |-> d]
    OBVIOUS
  <2>3. /\ SetCall(h, x) /\ call[h] = None /\ Len(retained') = d
        /\ DOMAIN retained' = DOMAIN retained \cup {d}
        /\ \A c \in DOMAIN retained : retained'[c] = retained[c]
        /\ UNCHANGED <<now, process, pending, engine, rows, associations, anomalies, scan, crashes>>
    BY <1>1, <2>1, <2>2, AdmitEffect
  <2>4. /\ call'[h] = x /\ \A g \in Handlers : g # h => call'[g] = call[g]
    BY <1>0, <2>3, CallEffect
  <2>5. x.phase = "admitted" /\ x.det = d
    BY <2>2
  <2>6. \A t, c : c \in DOMAIN retained /\ Covered(engine, t, c) => Covered(engine, t, c)'
    BY <2>3 DEF Covered
  <2>7. ASSUME NEW a, Covers(a)
        PROVE  a.stamp[2] \in DOMAIN retained' /\ retained'[a.stamp[2]].label <= a.label
    BY <2>3, <2>7 DEF Covers
  <2>8. \A t, c : Holds(engine', t, c) => Covered(engine, t, c)'
    BY <1>a, <2>3, <2>6 DEF CoverInv
  <2>9. process' # "down" =>
           \A n \in DOMAIN associations' \ pending' :
              Covered(engine, associations[n].track, associations[n].det)'
    BY <1>b, <2>3, <2>6 DEF CoverInv
  <2>10. ASSUME NEW g \in Handlers, call'[g] # None, call'[g].phase # "admitted"
         PROVE  /\ Covered(engine, call[g].track, call[g].det)'
                /\ \A n \in DOMAIN call'[g].batch :
                      call'[g].batch[n] # None => Covers(call[g].batch[n])'
    <3>1. call'[g] = call[g]
      BY <2>4, <2>5, <2>10
    <3>2. Covered(engine, call[g].track, call[g].det)'
      BY <1>c, <2>3, <2>10, <3>1 DEF CoverInv, Covered
    <3>3. ASSUME NEW n \in DOMAIN call[g].batch, call[g].batch[n] # None
          PROVE  Covers(call[g].batch[n])'
      <4>1. PICK a : a = call[g].batch[n]
        OBVIOUS
      <4>2. Covers(a)
        BY <2>10, <3>1, <3>3, <4>1 DEF CoverInv
      <4>3. call'[g].batch[n] = a
        BY <3>1, <4>1
      <4> QED
        BY <2>7, <4>2, <4>3 DEF Covers
    <3> QED
      BY <3>1, <3>2, <3>3
  <2>11. ASSUME NEW a \in anomalies, a.stamp[1] = "ingest"
         PROVE  Covers(a)'
    <3>1. Covers(a)
      BY <2>11 DEF CoverInv
    <3> QED
      BY <2>7, <3>1 DEF Covers
  <2>12. \A a \in scan' : a.stamp[1] = "scan"
    BY <2>3 DEF CoverInv
  <2> QED
    BY <2>3, <2>8, <2>9, <2>10, <2>11, <2>12 DEF CoverInv
<1>2. ASSUME NEW h \in Handlers, Ingest(h)
      PROVE  CoverInv'
  <2>1. PICK d, t, met, b : IngestStep(h, d, t, met, b)
    BY <1>2, IngestEffect
  <2>2. PICK x : x = [phase |-> "fused", det |-> d, track |-> t, batch |-> b]
    OBVIOUS
  <2>3. /\ d \in DOMAIN retained
        /\ call[h] # None /\ call[h].phase = "admitted" /\ call[h].det = d
        /\ Fused(engine, engine', t, d) /\ SetCall(h, x)
        /\ BatchOf(engine, t, d, b, met) /\ met \subseteq DOMAIN engine.tracks
        /\ UNCHANGED <<process, pending, retained, associations, anomalies, scan>>
    BY <2>1, <2>2 DEF IngestStep, Latches, tables
  <2>4. /\ call'[h] = x /\ \A g \in Handlers : g # h => call'[g] = call[g]
    BY <1>0, <2>3, CallEffect
  <2>5. x.det = d /\ x.track = t /\ x.batch = b
    BY <2>2
  <2>6. process = "serving" /\ pending = {}
    BY <1>0, <2>3 DEF CallInv, TableInv
  <2>7. /\ Covered(engine', t, d)
        /\ \A u, c : c \in DOMAIN retained /\ Covered(engine, u, c) => Covered(engine', u, c)
    BY <1>0, <2>3, FusedCovers
  <2>8. \A n \in DOMAIN associations : Covered(engine, associations[n].track, associations[n].det)
    BY <2>6 DEF CoverInv
  <2>9. ASSUME NEW k \in DOMAIN b, b[k] # None
        PROVE  Covers(b[k])
    <3>1. PICK a : a = b[k]
      OBVIOUS
    <3>2. a.stamp = <<"ingest", d>> /\ retained[d].label <= a.label
      BY <2>3, <2>9, <3>1 DEF BatchOf
    <3>3. a.stamp[2] = d
      BY <3>2
    <3> QED
      BY <2>3, <3>1, <3>2, <3>3 DEF Covers
  <2>10. \A u, c : Holds(engine', u, c) => Holds(engine, u, c) \/ (u = t /\ c = d)
    BY <1>0, <2>3, FusedSeats
  <2>11. \A u, c : Holds(engine', u, c) => Covered(engine', u, c)
    BY <1>a, <2>7, <2>10 DEF CoverInv
  <2>12. \A n \in DOMAIN associations : Covered(engine', associations[n].track, associations[n].det)
    BY <1>b, <2>7, <2>8
  <2>13. ASSUME NEW g \in Handlers, call'[g] # None, call'[g].phase # "admitted"
         PROVE  /\ Covered(engine', call'[g].track, call'[g].det)
                /\ \A n \in DOMAIN call'[g].batch :
                      call'[g].batch[n] # None => Covers(call'[g].batch[n])
    <3>1. CASE g = h
      BY <2>3, <2>4, <2>5, <2>7, <2>9, <3>1 DEF CoverInv
    <3>2. CASE g # h
      BY <1>c, <2>4, <2>7, <2>13, <3>2 DEF CoverInv
    <3> QED
      BY <3>1, <3>2
  <2> QED
    BY <2>3, <2>6, <2>11, <2>12, <2>13 DEF CoverInv, Covered, Covers
<1>3. ASSUME NEW h \in Handlers, Snapshot(h) \/ RecordFusionFails(h)
      PROVE  CoverInv'
  <2>1. PICK x :
          /\ SetCall(h, x)
          /\ x # None => /\ call[h] # None /\ call[h].phase # "admitted"
                         /\ x.det = call[h].det /\ x.track = call[h].track
                         /\ x.batch = call[h].batch
          /\ UNCHANGED <<process, pending, retained, associations, anomalies, engine, scan>>
    BY <1>0, <1>3, MoveEffect DEF CallMoves, tables
  <2>2. /\ call'[h] = x /\ \A g \in Handlers : g # h => call'[g] = call[g]
    BY <1>0, <2>1, CallEffect
  <2>3. ASSUME NEW g \in Handlers, call'[g] # None, call'[g].phase # "admitted"
        PROVE  /\ Covered(engine, call'[g].track, call'[g].det)
               /\ \A n \in DOMAIN call'[g].batch :
                     call'[g].batch[n] # None => Covers(call'[g].batch[n])
    BY <2>1, <2>2, <2>3 DEF CoverInv
  <2> QED
    BY <2>1, <2>3 DEF CoverInv, Covered, Covers
<1>4. ASSUME NEW h \in Handlers, RecordFusion(h)
      PROVE  CoverInv'
  <2>1. PICK t, d, b : RecordStep(h, t, d, b)
    BY <1>4, RecordEffect
  <2>2. PICK k : k = Len(associations) + 1
    OBVIOUS
  <2>3. PICK r : r = [track |-> t, det |-> d]
    OBVIOUS
  <2>4. r.track = t /\ r.det = d
    BY <2>3
  <2>5. /\ call[h] # None /\ call[h].phase = "snapshot"
        /\ call[h].track = t /\ call[h].det = d /\ call[h].batch = b
        /\ DOMAIN associations' = DOMAIN associations \cup {k}
        /\ associations'[k] = r
        /\ \A n \in DOMAIN associations : associations'[n] = associations[n]
        /\ anomalies' = anomalies \cup Insertable(b)
        /\ UNCHANGED <<process, pending, retained, engine, scan>>
    BY <2>1, <2>2, <2>3 DEF RecordStep
  <2>6. /\ call'[h] = None /\ \A g \in Handlers : g # h => call'[g] = call[g]
    BY <1>0, <2>1, CallEffect DEF RecordStep
  <2>7. process = "serving" /\ pending = {}
    BY <1>0, <2>5 DEF CallInv, TableInv
  <2>8. Covered(engine, t, d) /\ \A n \in DOMAIN b : b[n] # None => Covers(b[n])
    BY <2>5 DEF CoverInv
  <2>9. ASSUME NEW a, Covers(a)
        PROVE  Covers(a)'
    BY <2>5, <2>9 DEF Covers
  <2>10. ASSUME NEW a \in anomalies', a.stamp[1] = "ingest"
         PROVE  Covers(a)'
    <3>1. a \in anomalies \/ \E n \in DOMAIN b : b[n] = a /\ a # None
      BY <2>5, InsertableFacts
    <3>2. Covers(a)
      BY <2>8, <2>10, <3>1 DEF CoverInv
    <3> QED
      BY <2>9, <3>2
  <2>11. \A n \in DOMAIN associations' : Covered(engine, associations'[n].track, associations'[n].det)
    BY <2>4, <2>5, <2>7, <2>8 DEF CoverInv
  <2>12. ASSUME NEW g \in Handlers, call'[g] # None, call'[g].phase # "admitted"
         PROVE  /\ Covered(engine, call'[g].track, call'[g].det)
                /\ \A n \in DOMAIN call'[g].batch :
                      call'[g].batch[n] # None => Covers(call[g].batch[n])'
    <3>1. g # h /\ call'[g] = call[g]
      BY <2>6, <2>12
    <3>2. ASSUME NEW n \in DOMAIN call[g].batch, call[g].phase # "admitted",
                 call[g].batch[n] # None
          PROVE  Covers(call[g].batch[n])'
      <4>1. PICK a : a = call[g].batch[n]
        OBVIOUS
      <4>2. Covers(a)
        BY <2>12, <3>1, <3>2, <4>1 DEF CoverInv
      <4>3. Covers(a)' /\ call'[g].batch[n] = a
        BY <2>9, <3>1, <4>1, <4>2
      <4> QED
        BY <4>3 DEF Covers
    <3> QED
      BY <2>12, <3>1, <3>2 DEF CoverInv
  <2> QED
    BY <2>5, <2>7, <2>10, <2>11, <2>12 DEF CoverInv, Covered
<1>5. CASE ScanDarkVessels
  <2>1. Scanned(engine, engine', Dark) /\ scan' = {DarkAnomaly(t) : t \in Dark}
    BY <1>5, ScanEffect
  <2>2. UNCHANGED <<process, pending, retained, associations, anomalies, call>>
    BY <1>5 DEF ScanDarkVessels, tables
  <2>3. /\ \A u, c : Holds(engine', u, c) => Holds(engine, u, c)
        /\ DOMAIN engine'.tracks = DOMAIN engine.tracks
        /\ \A t \in DOMAIN engine.tracks : engine'.tracks[t].label = engine.tracks[t].label
    BY <2>1, ScannedSeats DEF Scanned
  <2>4. \A t, c : Covered(engine, t, c) => Covered(engine, t, c)'
    BY <2>2, <2>3 DEF Covered
  <2>5. \A a \in scan' : a.stamp[1] = "scan"
    BY <2>1 DEF DarkAnomaly
  <2> QED
    BY <2>2, <2>3, <2>5 DEF CoverInv, Covered, Covers
<1>6. CASE Crash
  <2>1. /\ process' = "down" /\ UNCHANGED <<retained, associations, anomalies>> /\ scan' = {}
        /\ DOMAIN engine'.tracks = {} /\ \A h \in Handlers : call'[h] = None
    BY <1>6 DEF Crash, tables, EmptyEngine
  <2>2. \A t, c : ~Holds(engine', t, c)
    BY <2>1 DEF Holds
  <2> QED
    BY <2>1, <2>2 DEF CoverInv, Covers
<1>7. CASE Restart
  <2>1. /\ process = "down" /\ pending' = DOMAIN associations
        /\ UNCHANGED <<retained, associations, anomalies, engine, call, scan>>
    BY <1>7 DEF Restart, tables
  <2>2. \A h \in Handlers : call[h] = None
    BY <1>0, <2>1 DEF CallInv
  <2> QED
    BY <2>1, <2>2 DEF CoverInv, Covered, Covers
<1>8. CASE ReplayNext
  <2>1. PICK n \in DOMAIN associations : ReplayStep(n)
    BY <1>8, ReplayEffect
  <2>2. PICK t : t = associations[n].track
    OBVIOUS
  <2>3. PICK d : d = associations[n].det
    OBVIOUS
  <2>4. /\ process = "replaying" /\ n \in pending /\ Fused(engine, engine', t, d)
        /\ pending' = pending \ {n}
        /\ UNCHANGED <<process, retained, associations, anomalies, call, scan>>
    BY <2>1, <2>2, <2>3 DEF ReplayStep, tables
  <2>5. d \in DOMAIN retained /\ \A h \in Handlers : call[h] = None
    BY <1>0, <2>3, <2>4 DEF TableInv, CallInv
  <2>6. /\ Covered(engine', t, d)
        /\ \A u, c : c \in DOMAIN retained /\ Covered(engine, u, c) => Covered(engine', u, c)
    BY <1>0, <2>4, <2>5, FusedCovers
  <2>7. \A u, c : Holds(engine', u, c) => Holds(engine, u, c) \/ (u = t /\ c = d)
    BY <1>0, <2>4, <2>5, FusedSeats
  <2>8. \A u, c : Holds(engine', u, c) => Covered(engine', u, c)
    BY <1>a, <2>6, <2>7 DEF CoverInv
  <2>9. \A k \in DOMAIN associations \ (pending \ {n}) :
           Covered(engine', associations[k].track, associations[k].det)
    BY <1>b, <2>2, <2>3, <2>4, <2>6 DEF CoverInv
  <2> QED
    BY <2>4, <2>5, <2>8, <2>9 DEF CoverInv, Covered, Covers
<1>9. CASE Serve
  <2>1. /\ process = "replaying" /\ process' = "serving"
        /\ UNCHANGED <<pending, retained, associations, anomalies, engine, call, scan>>
    BY <1>9 DEF Serve, tables
  <2> QED
    BY <2>1 DEF CoverInv, Covered, Covers
<1>10. CASE RecordAnomalies \/ RecordAnomaliesFails
  <2>1. /\ UNCHANGED <<process, pending, retained, associations, engine, call>>
        /\ anomalies' \subseteq anomalies \cup scan /\ scan' = {}
    BY <1>10 DEF RecordAnomalies, RecordAnomaliesFails, tables
  <2>2. \A a \in anomalies' : a.stamp[1] = "ingest" => a \in anomalies
    BY <2>1 DEF CoverInv
  <2> QED
    BY <2>1, <2>2 DEF CoverInv, Covered, Covers
<1>11. CASE Tick \/ UNCHANGED vars
  <2>1. UNCHANGED <<process, pending, retained, associations, anomalies, engine, call, scan>>
    BY <1>11 DEF Tick, tables, vars
  <2> QED
    BY <2>1 DEF CoverInv, Covered, Covers
<1> QED
  BY <1>1, <1>2, <1>3, <1>4, <1>5, <1>6, <1>7, <1>8, <1>9, <1>10, <1>11 DEF Next

\* The label of an anomaly that is raised covers what is known of its vessels.
LEMMA RaisedStep == Core /\ CoverInv /\ [Next]_vars => RaisedCovers
<1> SUFFICES ASSUME Core, CoverInv, [Next]_vars PROVE RaisedCovers
  OBVIOUS
<1>0. TableInv /\ CallInv /\ TracksOver(engine, DOMAIN retained) /\ Ranked(engine)
  BY DEF Core, EngineInv, TracksOver
<1>a. \A c \in DOMAIN retained : retained[c].label \in 0..3
  BY <1>0, DetectionFacts
<1>b. \A n \in DOMAIN associations : associations[n].det \in DOMAIN retained
  BY <1>0 DEF TableInv
<1>c. \A t, c : Holds(engine, t, c) => c \in DOMAIN retained
  BY <1>0 DEF TracksOver, Holds
<1>d. ASSUME NEW u, NEW label \in 0..3, u \in DOMAIN engine.tracks => engine.tracks[u].label <= label
      PROVE  \A c : c \in DOMAIN retained /\ Covered(engine, u, c) => retained[c].label <= label
  BY <1>0, <1>a, <1>d DEF Covered, Ranked
<1>1. ASSUME NEW h \in Handlers, Ingest(h)
      PROVE  RaisedCovers
  <2>1. PICK d, t, met, b : IngestStep(h, d, t, met, b)
    BY <1>1, IngestEffect
  <2>2. PICK x : x = [phase |-> "fused", det |-> d, track |-> t, batch |-> b]
    OBVIOUS
  <2>3. /\ d \in DOMAIN retained /\ call[h] # None
        /\ Fused(engine, engine', t, d) /\ SetCall(h, x)
        /\ BatchOf(engine, t, d, b, met) /\ met \subseteq DOMAIN engine.tracks \ {t}
        /\ UNCHANGED scan
    BY <2>1, <2>2 DEF IngestStep, Latches
  <2>4. call'[h] = x /\ x.batch = b /\ \A g \in Handlers : g # h => call'[g] = call[g]
    BY <1>0, <2>2, <2>3, CallEffect
  <2>5. process = "serving" /\ pending = {}
    BY <1>0, <2>3 DEF CallInv, TableInv
  <2>6. \A n \in DOMAIN associations : Covered(engine, associations[n].track, associations[n].det)
    BY <2>5 DEF CoverInv
  <2>7. \A u, c : Holds(engine', u, c) => Holds(engine, u, c) \/ (u = t /\ c = d)
    BY <1>0, <2>3, FusedSeats
  <2>8. b \in Seq(Anomaly \cup {None})
    BY <2>3 DEF BatchOf
  <2>9. RaisedNow \subseteq Range(b) \ {None}
    <3>1. \A g \in Handlers : At(g, "admitted") /\ At(g, "fused")' => g = h
      BY <2>4 DEF At
    <3> QED
      BY <2>3, <2>4, <3>1 DEF RaisedNow
  <2>10. ASSUME NEW a \in RaisedNow, NEW u \in About(a)
         PROVE  /\ \A c \in Range(engine'.tracks[u].points) : retained[c].label <= a.label
                /\ \A n \in DOMAIN associations :
                      associations[n].track = u => retained[associations[n].det].label <= a.label
    <3>1. PICK k \in DOMAIN b : b[k] = a /\ a # None
      BY <2>9 DEF Range
    <3>2. /\ a.track = t /\ retained[d].label <= a.label
          /\ t \in DOMAIN engine.tracks => engine.tracks[t].label <= a.label
          /\ a.kind = "rendezvous" =>
                a.subject \in met /\ engine.tracks[a.subject].label <= a.label
      BY <2>3, <3>1 DEF BatchOf
    <3>3. a.label \in 0..3
      BY <2>8, <3>1 DEF Anomaly
    <3>4. /\ u \in DOMAIN engine.tracks => engine.tracks[u].label <= a.label
          /\ u \in DOMAIN engine.tracks \cup {t}
      BY <2>3, <2>10, <3>2 DEF About
    <3>5. \A c : c \in DOMAIN retained /\ Covered(engine, u, c) => retained[c].label <= a.label
      BY <1>d, <3>3, <3>4
    <3>6. ASSUME NEW c \in Range(engine'.tracks[u].points)
          PROVE  retained[c].label <= a.label
      <4>1. Holds(engine', u, c)
        BY <2>3, <3>4 DEF Holds, Fused
      <4>2. CASE Holds(engine, u, c)
        BY <1>c, <3>5, <4>2 DEF CoverInv
      <4>3. CASE c = d
        BY <3>2, <4>3
      <4> QED
        BY <2>7, <4>1, <4>2, <4>3
    <3> QED
      BY <1>b, <2>6, <3>5, <3>6
  <2> QED
    BY <2>3, <2>10, <2>1 DEF RaisedCovers, IngestStep, tables
<1>2. CASE ScanDarkVessels
  <2>1. Scanned(engine, engine', Dark) /\ scan' = {DarkAnomaly(t) : t \in Dark}
    BY <1>2, ScanEffect
  <2>2. process = "serving" /\ UNCHANGED call
    BY <1>2 DEF ScanDarkVessels
  <2>3. pending = {}
    BY <1>0, <2>2 DEF TableInv
  <2>4. \A n \in DOMAIN associations : Covered(engine, associations[n].track, associations[n].det)
    BY <2>2, <2>3 DEF CoverInv
  <2>5. RaisedNow \subseteq scan'
    BY <2>2 DEF RaisedNow, At
  <2>6. ASSUME NEW a \in RaisedNow, NEW u \in About(a)
        PROVE  /\ \A c \in Range(engine'.tracks[u].points) : retained[c].label <= a.label
               /\ \A n \in DOMAIN associations :
                     associations[n].track = u => retained[associations[n].det].label <= a.label
    <3>1. PICK t \in Dark : a = DarkAnomaly(t)
      BY <2>1, <2>5
    <3>2. u = t /\ a.label = engine.tracks[t].label /\ t \in DOMAIN engine.tracks
      BY <2>6, <3>1 DEF DarkAnomaly, About, Dark
    <3>3. a.label \in 0..3 /\ engine.tracks[u].label <= a.label
      BY <1>0, <3>2 DEF Ranked
    <3>4. \A c : c \in DOMAIN retained /\ Covered(engine, u, c) => retained[c].label <= a.label
      BY <1>d, <3>3
    <3>5. \A c \in Range(engine'.tracks[u].points) : Holds(engine, u, c)
      BY <2>1, <3>2, ScannedSeats DEF Scanned, Holds
    <3> QED
      BY <1>b, <1>c, <2>4, <3>4, <3>5 DEF CoverInv
  <2> QED
    BY <2>6 DEF RaisedCovers
<1>3. CASE ~ScanDarkVessels /\ \A h \in Handlers : ~Ingest(h)
  <2>1. scan' \subseteq scan
    BY <1>3 DEF Next, Admit, Snapshot, RecordFusion, RecordFusionFails, RecordAnomalies,
                RecordAnomaliesFails, Tick, Crash, Restart, ReplayNext, Serve, vars
  <2>2. \A g \in Handlers : ~(At(g, "admitted") /\ At(g, "fused")')
    <3>1. ASSUME NEW h \in Handlers, NEW s \in Sightings, Admit(h, s), NEW g \in Handlers
          PROVE  ~(At(g, "admitted") /\ At(g, "fused")')
      BY <1>0, <3>1 DEF Admit, At, CallInv
    <3>2. ASSUME NEW h \in Handlers, Snapshot(h) \/ RecordFusion(h) \/ RecordFusionFails(h),
                 NEW g \in Handlers
          PROVE  ~(At(g, "admitted") /\ At(g, "fused")')
      BY <1>0, <3>2 DEF Snapshot, RecordFusion, RecordFusionFails, At, CallInv
    <3>3. ASSUME Crash, NEW g \in Handlers
          PROVE  ~(At(g, "admitted") /\ At(g, "fused")')
      BY <3>3 DEF Crash, At
    <3>4. ASSUME UNCHANGED call, NEW g \in Handlers
          PROVE  ~(At(g, "admitted") /\ At(g, "fused")')
      BY <3>4 DEF At
    <3>5. \/ \E h \in Handlers : \/ \E s \in Sightings : Admit(h, s)
                                \/ Snapshot(h) \/ RecordFusion(h) \/ RecordFusionFails(h)
          \/ Crash \/ UNCHANGED call
      BY <1>3 DEF Next, RecordAnomalies, RecordAnomaliesFails, Tick, Restart, ReplayNext, Serve, vars
    <3> QED
      BY <3>1, <3>2, <3>3, <3>4, <3>5
  <2>3. RaisedNow = {}
    BY <2>1, <2>2 DEF RaisedNow
  <2> QED
    BY <2>3 DEF RaisedCovers
<1> QED
  BY <1>1, <1>2, <1>3

\* A reader lists (listTracks, ListAnomalies) no track that holds, and no anomaly
\* that was raised by, a detection above its clearance, and an anomaly is raised with
\* a label at or above all that is known of its vessels (ReadsAreCleared), for any
\* number of handlers and after every restart.
THEOREM ListingsAreCleared == Spec => ReadsAreCleared
<1>1. Spec => [](Core /\ SeatInv /\ CoverInv)
  BY CoreInit, CoreStep, SeatInit, SeatStep, CoverInit, CoverStep, PTL DEF Spec
<1>2. Spec => []ListedIsCleared
  BY <1>1, ClearedProperty, PTL
<1>3. Spec => [][RaisedCovers]_vars
  BY <1>1, RaisedStep, PTL DEF Spec
<1> QED
  BY <1>2, <1>3, PTL DEF ReadsAreCleared

-----------------------------------------------------------------------------
(* A meeting is announced once                                             *)

Meets(a, t, u) == a.kind = "rendezvous" /\ {a.track, a.subject} = {t, u}
Announced(t, u) == {a \in anomalies : Meets(a, t, u)}

\* The anomaly at place n of what handler h is about to record.
InFlight(h, n) ==
    /\ call[h] # None /\ call[h].phase # "admitted"
    /\ n \in DOMAIN call[h].batch /\ call[h].batch[n] # None
Flying(t, u) == \E h \in Handlers : \E n : InFlight(h, n) /\ Meets(call[h].batch[n], t, u)

\* The meeting is latched on track t.
Met(e, t, u) == t \in DOMAIN e.tracks /\ u \in e.tracks[t].rendezAlerted

\* A meeting that may still be announced: it is not latched, or it is latched and
\* about to be recorded.
Open(t, u) == process # "serving" \/ ~Met(engine, t, u) \/ Flying(t, u)

\* Latches are on both tracks, and set before the meeting is announced, once.
LatchInv ==
    /\ \A t, u : Met(engine, t, u) => Met(engine, u, t)
    /\ \A h \in Handlers : \A n : InFlight(h, n) =>
          /\ call[h].batch[n].kind # "dark-vessel"
          /\ call[h].batch[n].kind = "rendezvous" =>
                Met(engine, call[h].batch[n].track, call[h].batch[n].subject)
    /\ \A g, h \in Handlers : \A m, n, t, u :
          /\ InFlight(g, m) /\ InFlight(h, n)
          /\ Meets(call[g].batch[m], t, u) /\ Meets(call[h].batch[n], t, u)
          => g = h /\ m = n
    /\ \A a \in scan : a.kind = "dark-vessel"

\* Each life of the process announces a meeting at most once.
MeetingCount ==
    \A t, u \in Detections :
        /\ IsFiniteSet(Announced(t, u))
        /\ Cardinality(Announced(t, u)) <= 1 + crashes
        /\ Open(t, u) => Cardinality(Announced(t, u)) <= crashes

MeetingInv == LatchInv /\ MeetingCount

LEMMA MeetingProperty == MeetingInv => RendezvousOnce
<1>1. \A t, u : Announced(t, u) =
         {a \in anomalies : a.kind = "rendezvous" /\ {a.track, a.subject} = {t, u}}
  BY DEF Announced, Meets
<1> QED
  BY <1>1 DEF MeetingInv, MeetingCount, RendezvousOnce

\* Nothing new is announced and nothing opens.
LEMMA MeetingsStay ==
    ASSUME MeetingCount, crashes' = crashes,
           \A t, u : Announced(t, u)' = Announced(t, u),
           \A t, u \in Detections : Open(t, u)' => Open(t, u)
    PROVE  MeetingCount'
  BY DEF MeetingCount

LEMMA MeetingInit == Init => MeetingInv
<1> SUFFICES ASSUME Init PROVE MeetingInv
  OBVIOUS
<1>1. DOMAIN engine.tracks = {} /\ anomalies = {} /\ scan = {} /\ crashes = 0
  BY DEF Init, EmptyEngine
<1>2. \A h \in Handlers : call[h] = None
  BY DEF Init
<1>3. LatchInv
  BY <1>1, <1>2 DEF LatchInv, Met, InFlight
<1>4. \A t, u : Announced(t, u) = {}
  BY <1>1 DEF Announced
<1>5. MeetingCount
  BY <1>1, <1>4, FS_EmptySet DEF MeetingCount
<1> QED
  BY <1>3, <1>5 DEF MeetingInv

\* What latching the meetings of an Ingest changes.
LEMMA LatchesMeet ==
    ASSUME NEW e, NEW f, NEW t, NEW met, Latches(e, f, t, met),
           DOMAIN f.tracks = DOMAIN e.tracks \cup {t},
           \A p, q : Met(e, p, q) => Met(e, q, p)
    PROVE  /\ \A p, q : Met(f, p, q) => Met(f, q, p)
           /\ \A p, q : Met(e, p, q) => Met(f, p, q)
           /\ \A q \in met : q # t /\ Met(f, t, q) /\ ~Met(e, t, q)
<1>1. /\ met \subseteq DOMAIN e.tracks \ {t}
      /\ t \in DOMAIN e.tracks => met \cap e.tracks[t].rendezAlerted = {}
      /\ f.tracks[t].rendezAlerted =
            met \cup (IF t \in DOMAIN e.tracks THEN e.tracks[t].rendezAlerted ELSE {})
      /\ \A u \in DOMAIN e.tracks \ {t} :
            f.tracks[u].rendezAlerted = e.tracks[u].rendezAlerted \cup (IF u \in met THEN {t} ELSE {})
  BY DEF Latches
<1>2. \A p, q : Met(e, p, q) => Met(f, p, q)
  BY <1>1 DEF Met
<1>3. \A q \in met : q # t /\ Met(f, t, q) /\ Met(f, q, t) /\ ~Met(e, t, q)
  BY <1>1 DEF Met
<1>4. \A p, q : Met(f, p, q) => Met(e, p, q) \/ (p = t /\ q \in met) \/ (q = t /\ p \in met)
  BY <1>1 DEF Met
<1> QED
  BY <1>2, <1>3, <1>4

\* Both orders of a meeting.
LEMMA MeetsEither ==
    ASSUME NEW a, NEW t, NEW u, Meets(a, t, u)
    PROVE  \/ a.track = t /\ a.subject = u
           \/ a.track = u /\ a.subject = t
  BY DEF Meets

LEMMA MeetingStep == Core /\ MeetingInv /\ [Next]_vars => MeetingInv'
<1> SUFFICES ASSUME Core, MeetingInv, [Next]_vars PROVE MeetingInv'
  OBVIOUS
<1>0. TableInv /\ EngineInv /\ CallInv /\ LatchInv /\ MeetingCount
  BY DEF Core, MeetingInv
<1>a. anomalies' = anomalies => \A t, u : Announced(t, u)' = Announced(t, u)
  BY DEF Announced
<1>b. \A p, q : Met(engine, p, q) => Met(engine, q, p)
  BY <1>0 DEF LatchInv
<1>c. crashes \in Nat
  BY <1>0, BoundsAssumption DEF TableInv
<1>1. ASSUME NEW h \in Handlers, NEW s \in Sightings, Admit(h, s)
      PROVE  MeetingInv'
  <2>1. PICK d : d = Len(retained) + 1
    OBVIOUS
  <2>2. PICK x : x = [phase |-> "admitted", det |-> d]
    OBVIOUS
  <2>3. /\ SetCall(h, x) /\ UNCHANGED <<process, engine, anomalies, scan, crashes>>
    BY <1>1, <2>1, <2>2, AdmitEffect
  <2>4. /\ call'[h] = x /\ \A g \in Handlers : g # h => call'[g] = call[g]
    BY <1>0, <2>3, CallEffect
  <2>5. x.phase = "admitted"
    BY <2>2
  <2>6. \A g \in Handlers : \A n : InFlight(g, n)' => InFlight(g, n) /\ call'[g] = call[g]
    BY <2>4, <2>5 DEF InFlight
  <2>7. LatchInv'
    BY <1>0, <2>3, <2>6 DEF LatchInv
  <2>8. \A t, u : Open(t, u)' => Open(t, u)
    BY <2>3, <2>6 DEF Open, Flying
  <2> QED
    BY <1>0, <1>a, <2>3, <2>7, <2>8, MeetingsStay DEF MeetingInv
<1>2. ASSUME NEW h \in Handlers, Ingest(h)
      PROVE  MeetingInv'
  <2>1. PICK d, t, met, b : IngestStep(h, d, t, met, b)
    BY <1>2, IngestEffect
  <2>2. PICK x : x = [phase |-> "fused", det |-> d, track |-> t, batch |-> b]
    OBVIOUS
  <2>3. /\ Latches(engine, engine', t, met) /\ SetCall(h, x)
        /\ BatchOf(engine, t, d, b, met) /\ DOMAIN engine'.tracks = DOMAIN engine.tracks \cup {t}
        /\ UNCHANGED <<process, anomalies, scan, crashes>>
    BY <2>1, <2>2 DEF IngestStep, Fused, tables
  <2>4. /\ call'[h] = x /\ \A g \in Handlers : g # h => call'[g] = call[g]
    BY <1>0, <2>3, CallEffect
  <2>5. x.batch = b
    BY <2>2
  <2>6. /\ \A p, q : Met(engine', p, q) => Met(engine', q, p)
        /\ \A p, q : Met(engine, p, q) => Met(engine', p, q)
        /\ \A q \in met : q # t /\ Met(engine', t, q) /\ ~Met(engine, t, q)
    BY <1>b, <2>3, LatchesMeet
  <2>7. \A g \in Handlers : \A n : g # h /\ InFlight(g, n)' => InFlight(g, n) /\ call'[g] = call[g]
    BY <2>4 DEF InFlight
  <2>8. \A n : InFlight(h, n)' => n \in DOMAIN b /\ b[n] # None /\ call'[h].batch = b
    BY <2>4, <2>5 DEF InFlight
  <2>9. /\ \A n \in DOMAIN b : b[n] # None =>
              /\ b[n].track = t /\ b[n].kind # "dark-vessel"
              /\ b[n].kind = "rendezvous" => b[n].subject \in met
        /\ \A m, n \in DOMAIN b :
              /\ b[m] # None /\ b[n] # None
              /\ b[m].kind = "rendezvous" /\ b[n].kind = "rendezvous"
              /\ b[m].subject = b[n].subject
              => m = n
    BY <2>3 DEF BatchOf
  <2>10. ASSUME NEW n \in DOMAIN b, b[n] # None, NEW p, NEW q, Meets(b[n], p, q)
         PROVE  /\ b[n].track = t /\ b[n].subject \in met
                /\ ~Met(engine, p, q)
    <3>1. b[n].kind = "rendezvous"
      BY <2>10 DEF Meets
    <3>2. b[n].track = t /\ b[n].subject \in met
      BY <2>9, <2>10, <3>1
    <3>3. ~Met(engine, t, b[n].subject)
      BY <2>6, <3>2
    <3> QED
      BY <1>b, <2>10, <3>2, <3>3, MeetsEither
  <2>11. ASSUME NEW g \in Handlers, NEW n, InFlight(g, n), NEW p, NEW q,
                Meets(call[g].batch[n], p, q)
         PROVE  Met(engine, p, q)
    <3>1. PICK a : a = call[g].batch[n]
      OBVIOUS
    <3>2. Meets(a, p, q) /\ a.kind = "rendezvous"
      BY <2>11, <3>1 DEF Meets
    <3>3. Met(engine, a.track, a.subject)
      BY <1>0, <2>11, <3>1, <3>2 DEF LatchInv
    <3> QED
      BY <1>b, <3>2, <3>3, MeetsEither
  <2>12. ASSUME NEW g \in Handlers, NEW n, InFlight(g, n)'
         PROVE  /\ call'[g].batch[n].kind # "dark-vessel"
                /\ call'[g].batch[n].kind = "rendezvous" =>
                      Met(engine', call'[g].batch[n].track, call'[g].batch[n].subject)
    <3>1. CASE g = h
      BY <2>6, <2>8, <2>9, <2>12, <3>1
    <3>2. CASE g # h
      <4>1. InFlight(g, n) /\ call'[g] = call[g]
        BY <2>7, <2>12, <3>2
      <4> QED
        BY <1>0, <2>6, <4>1 DEF LatchInv
    <3> QED
      BY <3>1, <3>2
  <2>13. ASSUME NEW g \in Handlers, NEW k \in Handlers, NEW m, NEW n, NEW p, NEW q,
                InFlight(g, m)', InFlight(k, n)',
                Meets(call'[g].batch[m], p, q), Meets(call'[k].batch[n], p, q)
         PROVE  g = k /\ m = n
    <3>1. CASE g = h /\ k = h
      <4>1. /\ m \in DOMAIN b /\ b[m] # None /\ n \in DOMAIN b /\ b[n] # None
            /\ Meets(b[m], p, q) /\ Meets(b[n], p, q)
        BY <2>8, <2>13, <3>1
      <4>2. /\ b[m].track = t /\ b[m].subject \in met
            /\ b[n].track = t /\ b[n].subject \in met
        BY <2>10, <4>1
      <4>3. b[m].subject = b[n].subject
        BY <2>6, <4>1, <4>2, MeetsEither
      <4>4. b[m].kind = "rendezvous" /\ b[n].kind = "rendezvous"
        BY <4>1 DEF Meets
      <4> QED
        BY <2>9, <3>1, <4>1, <4>3, <4>4
    <3>2. CASE g = h /\ k # h
      <4>1. ~Met(engine, p, q)
        BY <2>8, <2>10, <2>13, <3>2
      <4>2. Met(engine, p, q)
        BY <2>7, <2>11, <2>13, <3>2
      <4> QED
        BY <4>1, <4>2
    <3>3. CASE g # h /\ k = h
      <4>1. ~Met(engine, p, q)
        BY <2>8, <2>10, <2>13, <3>3
      <4>2. Met(engine, p, q)
        BY <2>7, <2>11, <2>13, <3>3
      <4> QED
        BY <4>1, <4>2
    <3>4. CASE g # h /\ k # h
      <4>1. /\ InFlight(g, m) /\ call'[g] = call[g] /\ InFlight(k, n) /\ call'[k] = call[k]
        BY <2>7, <2>13, <3>4
      <4> QED
        BY <1>0, <2>13, <4>1 DEF LatchInv
    <3> QED
      BY <3>1, <3>2, <3>3, <3>4
  <2>14. LatchInv'
    <3>1. \A a \in scan' : a.kind = "dark-vessel"
      BY <1>0, <2>3 DEF LatchInv
    <3> QED
      BY <2>6, <2>12, <2>13, <3>1 DEF LatchInv
  <2>15. ASSUME NEW p, NEW q, Open(p, q)'
         PROVE  Open(p, q)
    <3>1. CASE Flying(p, q)'
      <4>1. PICK g \in Handlers : \E n : InFlight(g, n)' /\ Meets(call'[g].batch[n], p, q)
        BY <3>1 DEF Flying, Meets
      <4>2. PICK n : InFlight(g, n)' /\ Meets(call'[g].batch[n], p, q)
        BY <4>1
      <4>3. CASE g = h
        BY <2>8, <2>10, <4>2, <4>3 DEF Open
      <4>4. CASE g # h
        BY <2>7, <4>2, <4>4 DEF Open, Flying
      <4> QED
        BY <4>3, <4>4
    <3>2. CASE ~Met(engine', p, q)
      BY <2>6, <3>2 DEF Open
    <3>3. CASE process' # "serving"
      BY <2>3, <3>3 DEF Open
    <3> QED
      BY <2>15, <3>1, <3>2, <3>3 DEF Open
  <2> QED
    BY <1>0, <1>a, <2>3, <2>14, <2>15, MeetingsStay DEF MeetingInv
<1>3. ASSUME NEW h \in Handlers, Snapshot(h) \/ RecordFusionFails(h)
      PROVE  MeetingInv'
  <2>1. PICK x :
          /\ SetCall(h, x)
          /\ x # None => /\ call[h] # None /\ call[h].phase # "admitted"
                         /\ x.batch = call[h].batch
          /\ UNCHANGED <<process, anomalies, engine, scan, crashes>>
    BY <1>0, <1>3, MoveEffect DEF CallMoves, tables
  <2>2. /\ call'[h] = x /\ \A g \in Handlers : g # h => call'[g] = call[g]
    BY <1>0, <2>1, CallEffect
  <2>3. \A g \in Handlers : \A n : InFlight(g, n)' =>
           InFlight(g, n) /\ call'[g].batch = call[g].batch
    BY <2>1, <2>2 DEF InFlight
  <2>4. LatchInv'
    BY <1>0, <2>1, <2>3 DEF LatchInv
  <2>5. \A t, u : Open(t, u)' => Open(t, u)
    BY <2>1, <2>3 DEF Open, Flying, Meets
  <2> QED
    BY <1>0, <1>a, <2>1, <2>4, <2>5, MeetingsStay DEF MeetingInv
<1>4. ASSUME NEW h \in Handlers, RecordFusion(h)
      PROVE  MeetingInv'
  <2>1. PICK t, d, b : RecordStep(h, t, d, b)
    BY <1>4, RecordEffect
  <2>2. /\ call[h] # None /\ call[h].phase = "snapshot" /\ call[h].batch = b
        /\ anomalies' = anomalies \cup Insertable(b)
        /\ UNCHANGED <<process, engine, scan, crashes>>
    BY <2>1 DEF RecordStep
  <2>3. /\ call'[h] = None /\ \A g \in Handlers : g # h => call'[g] = call[g]
    BY <1>0, <2>1, CallEffect DEF RecordStep
  <2>4. \A g \in Handlers : \A n : InFlight(g, n)' => g # h /\ InFlight(g, n) /\ call'[g] = call[g]
    BY <2>3 DEF InFlight
  <2>5. LatchInv'
    BY <1>0, <2>2, <2>4 DEF LatchInv
  <2>6. \A p, q : Flying(p, q)' => Flying(p, q)
    BY <2>4 DEF Flying
  <2>7. ASSUME NEW p \in Detections, NEW q \in Detections
        PROVE  /\ IsFiniteSet(Announced(p, q)')
               /\ Cardinality(Announced(p, q)') <= 1 + crashes
               /\ Open(p, q)' => Cardinality(Announced(p, q)') <= crashes
    <3>1. PICK K : K = Announced(p, q)
      OBVIOUS
    <3>2. PICK L : L = Announced(p, q)'
      OBVIOUS
    <3>3. /\ IsFiniteSet(K) /\ Cardinality(K) <= 1 + crashes
          /\ Open(p, q) => Cardinality(K) <= crashes
      BY <1>0, <3>1 DEF MeetingCount
    <3>4. L = K \cup {a \in Insertable(b) : Meets(a, p, q)}
      BY <2>2, <3>1, <3>2 DEF Announced
    <3>5. CASE ~\E a \in Insertable(b) : Meets(a, p, q)
      <4>1. L = K
        BY <3>4, <3>5
      <4>2. Open(p, q)' => Open(p, q)
        BY <2>2, <2>6 DEF Open
      <4> QED
        BY <3>2, <3>3, <4>1, <4>2
    <3>6. CASE \E a \in Insertable(b) : Meets(a, p, q)
      <4>1. PICK a \in Insertable(b) : Meets(a, p, q)
        BY <3>6
      <4>2. PICK n \in DOMAIN b : b[n] = a /\ a # None
        BY InsertableFacts
      <4>3. InFlight(h, n) /\ call[h].batch[n] = a
        BY <2>2, <4>2 DEF InFlight
      <4>4. \A c \in Insertable(b) : Meets(c, p, q) => c = a
        <5>1. ASSUME NEW c \in Insertable(b), Meets(c, p, q)
              PROVE  c = a
          <6>1. PICK m \in DOMAIN b : b[m] = c /\ c # None
            BY InsertableFacts
          <6>2. InFlight(h, m) /\ call[h].batch[m] = c
            BY <2>2, <6>1 DEF InFlight
          <6>3. m = n
            BY <1>0, <4>1, <4>3, <5>1, <6>2 DEF LatchInv
          <6> QED
            BY <4>2, <6>1, <6>3
        <5> QED
          BY <5>1
      <4>5. L = K \cup {a}
        BY <3>4, <4>1, <4>4
      <4>6. Cardinality(K) <= crashes
        BY <3>3, <4>1, <4>3 DEF Open, Flying
      <4>7. /\ IsFiniteSet(L)
            /\ Cardinality(L) = IF a \in K THEN Cardinality(K) ELSE Cardinality(K) + 1
        BY <3>3, <4>5, FS_AddElement
      <4>8. Cardinality(K) \in Nat
        BY <3>3, FS_CardinalityType
      <4>9. Cardinality(L) <= 1 + crashes
        BY <1>c, <4>6, <4>7, <4>8
      <4>10. ~Open(p, q)'
        <5>1. process' = "serving"
          BY <1>0, <2>2 DEF CallInv
        <5>2. Met(engine, a.track, a.subject)
          BY <1>0, <4>1, <4>3 DEF LatchInv, Meets
        <5>3. Met(engine, p, q)
          BY <1>b, <4>1, <5>2, MeetsEither
        <5>4. ~Flying(p, q)'
          <6>1. ASSUME NEW g \in Handlers, NEW m, InFlight(g, m)', Meets(call'[g].batch[m], p, q)
                PROVE  FALSE
            <7>1. g # h /\ InFlight(g, m) /\ call'[g] = call[g]
              BY <2>4, <6>1
            <7> QED
              BY <1>0, <4>1, <4>3, <6>1, <7>1 DEF LatchInv
          <6> QED
            BY <6>1 DEF Flying, Meets
        <5>5. Met(engine, p, q)'
          BY <2>2, <5>3 DEF Met
        <5> QED
          BY <5>1, <5>4, <5>5 DEF Open
      <4> QED
        BY <3>2, <4>7, <4>9, <4>10
    <3> QED
      BY <3>5, <3>6
  <2>8. MeetingCount'
    BY <2>2, <2>7 DEF MeetingCount
  <2> QED
    BY <2>5, <2>8 DEF MeetingInv
<1>5. CASE ScanDarkVessels
  <2>1. Scanned(engine, engine', Dark) /\ scan' = {DarkAnomaly(t) : t \in Dark}
    BY <1>5, ScanEffect
  <2>2. UNCHANGED <<process, anomalies, call, crashes>>
    BY <1>5 DEF ScanDarkVessels, tables
  <2>3. \A p, q : Met(engine', p, q) <=> Met(engine, p, q)
    BY <2>1 DEF Scanned, Met
  <2>4. \A a \in scan' : a.kind = "dark-vessel"
    BY <2>1 DEF DarkAnomaly
  <2>5. \A g, n : InFlight(g, n)' <=> InFlight(g, n)
    BY <2>2 DEF InFlight
  <2>6. LatchInv'
    BY <1>0, <2>2, <2>3, <2>4, <2>5 DEF LatchInv
  <2>7. \A t, u : Open(t, u)' => Open(t, u)
    BY <2>2, <2>3, <2>5 DEF Open, Flying
  <2> QED
    BY <1>0, <1>a, <2>2, <2>6, <2>7, MeetingsStay DEF MeetingInv
<1>6. CASE Crash
  <2>1. /\ DOMAIN engine'.tracks = {} /\ \A h \in Handlers : call'[h] = None
        /\ anomalies' = anomalies /\ scan' = {} /\ crashes' = crashes + 1
    BY <1>6 DEF Crash, tables, EmptyEngine
  <2>2. LatchInv'
    BY <2>1 DEF LatchInv, Met, InFlight
  <2>3. ASSUME NEW p \in Detections, NEW q \in Detections
        PROVE  /\ IsFiniteSet(Announced(p, q)')
               /\ Cardinality(Announced(p, q)') <= 1 + crashes'
               /\ Open(p, q)' => Cardinality(Announced(p, q)') <= crashes'
    <3>1. PICK K : K = Announced(p, q)
      OBVIOUS
    <3>2. IsFiniteSet(K) /\ Cardinality(K) <= 1 + crashes /\ Announced(p, q)' = K
      BY <1>0, <1>a, <2>1, <3>1 DEF MeetingCount
    <3>3. Cardinality(K) \in Nat
      BY <3>2, FS_CardinalityType
    <3>4. Cardinality(K) <= crashes + 1 /\ Cardinality(K) <= 1 + (crashes + 1)
      BY <1>c, <3>2, <3>3
    <3> QED
      BY <2>1, <3>2, <3>4
  <2> QED
    BY <2>2, <2>3 DEF MeetingInv, MeetingCount
<1>7. CASE ReplayNext
  <2>1. PICK n \in DOMAIN associations : ReplayStep(n)
    BY <1>7, ReplayEffect
  <2>2. PICK t : t = associations[n].track
    OBVIOUS
  <2>3. PICK d : d = associations[n].det
    OBVIOUS
  <2>4. /\ process = "replaying" /\ Fused(engine, engine', t, d) /\ Unlatched(engine, engine', t)
        /\ UNCHANGED <<process, anomalies, call, scan, crashes>>
    BY <2>1, <2>2, <2>3 DEF ReplayStep, tables
  <2>5. \A h \in Handlers : call[h] = None
    BY <1>0, <2>4 DEF CallInv
  <2>6. DOMAIN engine'.tracks = DOMAIN engine.tracks \cup {t}
    BY <2>4 DEF Fused
  <2>7. \A p, q : Met(engine', p, q) <=> Met(engine, p, q)
    BY <2>4, <2>6 DEF Unlatched, Met
  <2>8. LatchInv'
    BY <1>0, <2>4, <2>5, <2>7 DEF LatchInv, InFlight
  <2>9. \A p, q : Open(p, q)
    BY <2>4 DEF Open
  <2> QED
    BY <1>0, <1>a, <2>4, <2>8, <2>9, MeetingsStay DEF MeetingInv
<1>8. CASE RecordAnomalies \/ RecordAnomaliesFails
  <2>1. /\ UNCHANGED <<process, engine, call, crashes>> /\ scan' = {}
        /\ anomalies' = anomalies \cup scan \/ anomalies' = anomalies
    BY <1>8 DEF RecordAnomalies, RecordAnomaliesFails, tables
  <2>2. \A t, u : Announced(t, u)' = Announced(t, u)
    BY <1>0, <2>1 DEF Announced, Meets, LatchInv
  <2>3. LatchInv'
    BY <1>0, <2>1 DEF LatchInv, InFlight, Met
  <2>4. \A t, u : Open(t, u)' => Open(t, u)
    BY <2>1 DEF Open, Flying, InFlight, Met
  <2> QED
    BY <1>0, <2>1, <2>2, <2>3, <2>4, MeetingsStay DEF MeetingInv
<1>9. CASE Restart \/ Serve
  <2>1. process # "serving" /\ UNCHANGED <<engine, call, anomalies, scan, crashes>>
    BY <1>9 DEF Restart, Serve, tables
  <2>2. LatchInv'
    BY <1>0, <2>1 DEF LatchInv, InFlight, Met
  <2>3. \A t, u : Open(t, u)
    BY <2>1 DEF Open
  <2> QED
    BY <1>0, <1>a, <2>1, <2>2, <2>3, MeetingsStay DEF MeetingInv
<1>10. CASE Tick \/ UNCHANGED vars
  <2>1. UNCHANGED <<process, engine, call, anomalies, scan, crashes>>
    BY <1>10 DEF Tick, tables, vars
  <2>2. LatchInv'
    BY <1>0, <2>1 DEF LatchInv, InFlight, Met
  <2>3. \A t, u : Open(t, u)' => Open(t, u)
    BY <2>1 DEF Open, Flying, InFlight, Met
  <2> QED
    BY <1>0, <1>a, <2>1, <2>2, <2>3, MeetingsStay DEF MeetingInv
<1> QED
  BY <1>1, <1>2, <1>3, <1>4, <1>5, <1>6, <1>7, <1>8, <1>9, <1>10 DEF Next

-----------------------------------------------------------------------------
(* A silence is announced once                                             *)

Silences(t) == {a \in anomalies : a.kind = "dark-vessel" /\ a.track = t}

\* The AIS reports that no admitted call has still to fuse.
Awaited(c) == \E h \in Handlers : call[h] # None /\ call[h].phase = "admitted" /\ call[h].det = c
Taken == {c \in DOMAIN retained : Report(c) /\ ~Awaited(c)}

\* The track may be announced at the next scan, when it was silent for long enough.
Alertable(e, t) ==
    t \in DOMAIN e.tracks /\ ~e.tracks[t].darkAlerted /\ e.tracks[t].lastAISAt # Never

\* Whether an alert about the track waits to be recorded, and whether it may get
\* one: as it stands, or because a restart releases its latch.
Waiting(t) == IF \E a \in scan : a.track = t THEN 1 ELSE 0
Armed(t) == IF process # "serving" \/ Alertable(engine, t) THEN 1 ELSE 0

\* Alerts recorded, waiting and possible are paid for by reports and crashes.
Paid(silences, waiting, armed, reports, falls) ==
    /\ IsFiniteSet(silences)
    /\ Cardinality(silences) + waiting + armed <= falls + Cardinality(reports)

SilenceInv ==
    /\ \A t \in Detections : Paid(Silences(t), Waiting(t), Armed(t), Taken, crashes)
    /\ \A a, c \in scan : a.track = c.track => a = c
    /\ \A a \in scan : a.kind = "dark-vessel"
    /\ \A h \in Handlers : \A n :
          InFlight(h, n) => call[h].batch[n].kind # "dark-vessel"

\* The reports are finitely many.
LEMMA ReportsFinite ==
    ASSUME NEW r \in Seq(Sightings), NEW S \in SUBSET DOMAIN r
    PROVE  IsFiniteSet(S) /\ Cardinality(S) \in Nat
<1>1. DOMAIN r = 1..Len(r) /\ Len(r) \in Int
  OBVIOUS
<1>2. IsFiniteSet(DOMAIN r)
  BY <1>1, FS_Interval
<1>3. IsFiniteSet(S)
  BY <1>2, FS_Subset
<1> QED
  BY <1>3, FS_CardinalityType

LEMMA SilenceProperty ==
    ASSUME Core, SilenceInv
    PROVE  SilenceOnce
<1>0. TableInv
  BY DEF Core
<1>1. PICK R : R = {d \in DOMAIN retained : retained[d].ais # None}
  OBVIOUS
<1>2. PICK T : T = Taken
  OBVIOUS
<1>3. R \in SUBSET DOMAIN retained /\ T \in SUBSET R
  BY <1>1, <1>2 DEF Taken, Report
<1>4. IsFiniteSet(R) /\ Cardinality(R) \in Nat
  BY <1>0, <1>3, ReportsFinite DEF TableInv
<1>5. IsFiniteSet(T) /\ Cardinality(T) <= Cardinality(R)
  BY <1>3, <1>4, FS_Subset
<1>6. Cardinality(T) \in Nat /\ crashes \in Nat
  BY <1>0, <1>5, FS_CardinalityType, BoundsAssumption DEF TableInv
<1>7. ASSUME NEW t \in Detections
      PROVE  Cardinality(Silences(t)) <= crashes + Cardinality(R)
  <2>1. PICK S : S = Silences(t)
    OBVIOUS
  <2>2. /\ IsFiniteSet(S)
        /\ Cardinality(S) + Waiting(t) + Armed(t) <= crashes + Cardinality(T)
    BY <1>2, <2>1 DEF SilenceInv, Paid
  <2>3. Cardinality(S) \in Nat /\ Waiting(t) \in Nat /\ Armed(t) \in Nat
    BY <2>2, FS_CardinalityType DEF Waiting, Armed
  <2> QED
    BY <1>4, <1>5, <1>6, <2>1, <2>2, <2>3
<1> QED
  BY <1>1, <1>7 DEF SilenceOnce, Silences

\* Paid for before, and no more to pay for now than there is to pay with.
LEMMA PaidStays ==
    ASSUME NEW S, NEW T, IsFiniteSet(T), NEW U, IsFiniteSet(U),
           NEW w \in Nat, NEW v \in Nat, NEW a \in Nat, NEW b \in Nat,
           NEW k \in Nat, NEW l \in Nat, Paid(S, w, a, T, k),
           (v + b) + (k + Cardinality(T)) <= (w + a) + (l + Cardinality(U))
    PROVE  Paid(S, v, b, U, l)
<1>1. IsFiniteSet(S) /\ Cardinality(S) + w + a <= k + Cardinality(T)
  BY DEF Paid
<1>2. Cardinality(S) \in Nat /\ Cardinality(T) \in Nat /\ Cardinality(U) \in Nat
  BY <1>1, FS_CardinalityType
<1>3. Cardinality(S) + v + b <= l + Cardinality(U)
  BY <1>1, <1>2
<1> QED
  BY <1>1, <1>3 DEF Paid

\* With at least the reports there were, and not more to pay for.
LEMMA PaidAgain ==
    ASSUME NEW S, NEW T, NEW U, IsFiniteSet(U), T \subseteq U,
           NEW w \in Nat, NEW v \in Nat, NEW a \in Nat, NEW b \in Nat,
           NEW k \in Nat, Paid(S, w, a, T, k), v <= w, b <= a
    PROVE  Paid(S, v, b, U, k)
<1>1. IsFiniteSet(T) /\ Cardinality(T) <= Cardinality(U)
  BY FS_Subset
<1>2. Cardinality(T) \in Nat /\ Cardinality(U) \in Nat
  BY <1>1, FS_CardinalityType
<1>3. (v + b) + (k + Cardinality(T)) <= (w + a) + (k + Cardinality(U))
  BY <1>1, <1>2
<1> QED
  BY <1>1, <1>3, PaidStays

\* The alert that waited is recorded.
LEMMA PaidRecord ==
    ASSUME NEW S, NEW x, NEW T, IsFiniteSet(T), NEW a \in Nat, NEW k \in Nat,
           Paid(S, 1, a, T, k)
    PROVE  Paid(S \cup {x}, 0, a, T, k)
<1>1. IsFiniteSet(S) /\ Cardinality(S) + 1 + a <= k + Cardinality(T)
  BY DEF Paid
<1>2. /\ IsFiniteSet(S \cup {x})
      /\ Cardinality(S \cup {x}) = IF x \in S THEN Cardinality(S) ELSE Cardinality(S) + 1
  BY <1>1, FS_AddElement
<1>3. Cardinality(S) \in Nat /\ Cardinality(T) \in Nat
  BY <1>1, FS_CardinalityType
<1>4. Cardinality(S \cup {x}) + 0 + a <= k + Cardinality(T)
  BY <1>1, <1>2, <1>3
<1> QED
  BY <1>2, <1>4 DEF Paid

LEMMA SilenceInit == Init => SilenceInv
<1> SUFFICES ASSUME Init PROVE SilenceInv
  OBVIOUS
<1>1. /\ DOMAIN engine.tracks = {} /\ anomalies = {} /\ scan = {} /\ crashes = 0
      /\ process = "serving" /\ DOMAIN retained = {}
  BY DEF Init, EmptyEngine
<1>2. \A h \in Handlers : call[h] = None
  BY DEF Init
<1>3. Taken = {}
  BY <1>1 DEF Taken
<1>4. \A t : Silences(t) = {} /\ Waiting(t) = 0 /\ Armed(t) = 0
  BY <1>1 DEF Silences, Waiting, Armed, Alertable
<1>5. \A t : Paid(Silences(t), Waiting(t), Armed(t), Taken, crashes)
  <2>1. IsFiniteSet({}) /\ Cardinality({}) = 0
    BY FS_EmptySet
  <2>2. PICK none : none = {}
    OBVIOUS
  <2>3. Paid(none, 0, 0, none, 0)
    BY <2>1, <2>2 DEF Paid
  <2> QED
    BY <1>1, <1>3, <1>4, <2>2, <2>3
<1> QED
  BY <1>1, <1>2, <1>5 DEF SilenceInv, InFlight

\* The reports taken, when no call is newly awaited.
LEMMA TakenStays ==
    ASSUME retained' = retained, \A c : Awaited(c)' => Awaited(c)
    PROVE  Taken \subseteq Taken'
  BY DEF Taken, Report

LEMMA SilenceStep == Core /\ SeatInv /\ SilenceInv /\ [Next]_vars => SilenceInv'
<1> SUFFICES ASSUME Core, SeatInv, SilenceInv, [Next]_vars PROVE SilenceInv'
  OBVIOUS
<1>0. TableInv /\ EngineInv /\ CallInv
  BY DEF Core
<1>a. IsFiniteSet(Taken) /\ IsFiniteSet(Taken') /\ crashes \in Nat
  <2>1. TableInv'
    BY CoreStep DEF Core
  <2>2. PICK r : r = retained
    OBVIOUS
  <2>3. PICK S : S = Taken
    OBVIOUS
  <2>4. r \in Seq(Sightings) /\ S \in SUBSET DOMAIN r
    BY <1>0, <2>2, <2>3 DEF TableInv, Taken
  <2>5. PICK q : q = retained'
    OBVIOUS
  <2>6. PICK U : U = Taken'
    OBVIOUS
  <2>7. q \in Seq(Sightings) /\ U \in SUBSET DOMAIN q
    BY <2>1, <2>5, <2>6 DEF TableInv, Taken
  <2> QED
    BY <1>0, <2>3, <2>4, <2>6, <2>7, ReportsFinite, BoundsAssumption DEF TableInv
<1>b. \A t : Waiting(t) \in {0, 1} /\ Armed(t) \in {0, 1}
  BY DEF Waiting, Armed
<1>c. \A t : Waiting(t)' \in {0, 1} /\ Armed(t)' \in {0, 1}
  BY DEF Waiting, Armed
\* Steps that announce nothing and arm nothing.
<1>d. ASSUME Taken \subseteq Taken', crashes' = crashes,
             \A t \in Detections : /\ Silences(t)' = Silences(t)
                                   /\ Waiting(t)' <= Waiting(t) /\ Armed(t)' <= Armed(t),
             NEW t \in Detections
      PROVE  Paid(Silences(t), Waiting(t), Armed(t), Taken, crashes)'
  <2>1. PICK S : S = Silences(t)
    OBVIOUS
  <2>2. PICK T : T = Taken
    OBVIOUS
  <2>3. PICK U : U = Taken'
    OBVIOUS
  <2>4. PICK w \in Nat, v \in Nat : w = Waiting(t) /\ v = Waiting(t)'
    BY <1>b, <1>c
  <2>5. PICK a \in Nat, b \in Nat : a = Armed(t) /\ b = Armed(t)'
    BY <1>b, <1>c
  <2>6. Paid(S, w, a, T, crashes)
    BY <2>1, <2>2, <2>4, <2>5 DEF SilenceInv
  <2>7. v <= w /\ b <= a /\ T \subseteq U /\ IsFiniteSet(U)
    BY <1>a, <1>d, <2>2, <2>3, <2>4, <2>5
  <2>8. Paid(S, v, b, U, crashes)
    BY <1>a, <2>6, <2>7, PaidAgain
  <2> QED
    BY <1>d, <2>1, <2>3, <2>4, <2>5, <2>8 DEF Paid
<1>1. ASSUME NEW h \in Handlers, NEW s \in Sightings, Admit(h, s)
      PROVE  SilenceInv'
  <2>1. PICK d : d = Len(retained) + 1
    OBVIOUS
  <2>2. PICK x : x = [phase |-> "admitted", det |-> d]
    OBVIOUS
  <2>3. /\ SetCall(h, x) /\ d \in Nat /\ d \notin DOMAIN retained
        /\ DOMAIN retained' = DOMAIN retained \cup {d}
        /\ \A c \in DOMAIN retained : retained'[c] = retained[c]
        /\ UNCHANGED <<process, engine, anomalies, scan, crashes>>
    BY <1>1, <2>1, <2>2, AdmitEffect
  <2>4. /\ call'[h] = x /\ \A g \in Handlers : g # h => call'[g] = call[g]
    BY <1>0, <2>3, CallEffect
  <2>5. x.phase = "admitted" /\ x.det = d
    BY <2>2
  <2>6. \A c \in DOMAIN retained : Awaited(c)' => Awaited(c)
    BY <2>3, <2>4, <2>5 DEF Awaited
  <2>7. Taken \subseteq Taken'
    BY <2>3, <2>6 DEF Taken, Report
  <2>8. \A t : Silences(t)' = Silences(t) /\ Waiting(t)' = Waiting(t) /\ Armed(t)' = Armed(t)
    BY <2>3 DEF Silences, Waiting, Armed, Alertable
  <2>9. \A t : Waiting(t) <= Waiting(t) /\ Armed(t) <= Armed(t)
    BY <1>b
  <2>10. \A g \in Handlers : \A n : InFlight(g, n)' => InFlight(g, n) /\ call'[g] = call[g]
    BY <2>4, <2>5 DEF InFlight
  <2>11. \A t \in Detections : Paid(Silences(t), Waiting(t), Armed(t), Taken, crashes)'
    BY <1>d, <2>3, <2>7, <2>8, <2>9
  <2> QED
    BY <2>3, <2>10, <2>11 DEF SilenceInv
<1>2. ASSUME NEW h \in Handlers, Ingest(h)
      PROVE  SilenceInv'
  <2>1. PICK d, t, met, b : IngestStep(h, d, t, met, b)
    BY <1>2, IngestEffect
  <2>2. PICK x : x = [phase |-> "fused", det |-> d, track |-> t, batch |-> b]
    OBVIOUS
  <2>3. /\ d \in DOMAIN retained
        /\ call[h] # None /\ call[h].phase = "admitted" /\ call[h].det = d
        /\ Fused(engine, engine', t, d) /\ SetCall(h, x) /\ BatchOf(engine, t, d, b, met)
        /\ UNCHANGED <<process, retained, anomalies, scan, crashes>>
    BY <2>1, <2>2 DEF IngestStep, tables
  <2>4. /\ call'[h] = x /\ \A g \in Handlers : g # h => call'[g] = call[g]
    BY <1>0, <2>3, CallEffect
  <2>5. x.phase = "fused" /\ x.batch = b
    BY <2>2
  <2>6. process = "serving"
    BY <1>0, <2>3 DEF CallInv
  <2>7. \A c : Awaited(c)' => Awaited(c)
    BY <2>4, <2>5 DEF Awaited
  <2>8. Taken \subseteq Taken'
    BY <2>3, <2>7, TakenStays
  <2>9. \A u : Silences(u)' = Silences(u) /\ Waiting(u)' = Waiting(u)
    BY <2>3 DEF Silences, Waiting
  <2>10. ASSUME NEW u \in Detections
         PROVE  Paid(Silences(u), Waiting(u), Armed(u), Taken, crashes)'
    <3>1. CASE ~Report(d)
      <4>1. ASSUME NEW v, Alertable(engine', v)
            PROVE  Alertable(engine, v)
        <5>1. CASE v = t
          <6>1. engine'.tracks[t].lastAISAt = AISAt(engine, t)
            BY <2>3, <3>1 DEF Fused, Grown, LastAISAt, Report
          <6>2. t \in DOMAIN engine.tracks /\ engine.tracks[t].lastAISAt # Never
            BY <4>1, <5>1, <6>1 DEF AISAt, Alertable
          <6>3. engine.tracks[t].darkAlerted => engine'.tracks[t].darkAlerted
            BY <2>3, <3>1, <6>2 DEF Fused, Grown, Report
          <6> QED
            BY <4>1, <5>1, <6>2, <6>3 DEF Alertable
        <5>2. CASE v # t
          <6>1. v \in DOMAIN engine.tracks /\ Same(engine'.tracks[v], engine.tracks[v])
            BY <2>3, <4>1, <5>2 DEF Fused, Alertable
          <6> QED
            BY <4>1, <6>1 DEF Alertable, Same
        <5> QED
          BY <5>1, <5>2
      <4>2. \A v : Armed(v)' <= Armed(v)
        BY <2>3, <2>6, <4>1 DEF Armed
      <4>3. \A v : Waiting(v) <= Waiting(v)
        BY <1>b
      <4> QED
        BY <1>d, <2>3, <2>8, <2>9, <4>2, <4>3
    <3>2. CASE Report(d)
      <4>1. Awaited(d) /\ ~Awaited(d)'
        BY <2>3, <2>4, <2>5 DEF Awaited, SeatInv, DetectionInv
      <4>2. d \notin Taken /\ d \in Taken'
        BY <2>3, <3>2, <4>1 DEF Taken, Report
      <4>3. PICK S : S = Silences(u)
        OBVIOUS
      <4>4. PICK T : T = Taken
        OBVIOUS
      <4>5. PICK U : U = Taken'
        OBVIOUS
      <4>6. PICK w \in Nat : w = Waiting(u) /\ w = Waiting(u)'
        BY <1>b, <2>9
      <4>7. PICK a \in {0, 1} : a = Armed(u)
        BY <1>b
      <4>8. PICK c \in {0, 1} : c = Armed(u)'
        BY <1>c
      <4>9. Paid(S, w, a, T, crashes)
        BY <4>3, <4>4, <4>6, <4>7 DEF SilenceInv
      <4>10. /\ IsFiniteSet(T) /\ IsFiniteSet(U) /\ T \cup {d} \in SUBSET U /\ d \notin T
        BY <1>a, <2>8, <4>2, <4>4, <4>5
      <4>11. IsFiniteSet(T \cup {d}) /\ Cardinality(T \cup {d}) = Cardinality(T) + 1
        BY <4>10, FS_AddElement
      <4>12. Cardinality(T \cup {d}) <= Cardinality(U)
        BY <4>10, FS_Subset
      <4>13. Cardinality(T) \in Nat /\ Cardinality(U) \in Nat
        BY <4>10, FS_CardinalityType
      <4>14. (w + c) + (crashes + Cardinality(T)) <= (w + a) + (crashes + Cardinality(U))
        BY <1>a, <4>11, <4>12, <4>13
      <4>15. Paid(S, w, c, U, crashes)
        BY <1>a, <4>9, <4>10, <4>14, PaidStays
      <4> QED
        BY <2>3, <2>9, <4>3, <4>5, <4>6, <4>8, <4>15 DEF Paid
    <3> QED
      BY <3>1, <3>2
  <2>11. ASSUME NEW g \in Handlers, NEW n, InFlight(g, n)'
         PROVE  call'[g].batch[n].kind # "dark-vessel"
    <3>1. CASE g = h
      BY <2>3, <2>4, <2>5, <2>11, <3>1 DEF InFlight, BatchOf
    <3>2. CASE g # h
      BY <2>4, <2>11, <3>2 DEF InFlight, SilenceInv
    <3> QED
      BY <3>1, <3>2
  <2> QED
    BY <2>3, <2>10, <2>11 DEF SilenceInv
<1>3. ASSUME NEW h \in Handlers, Snapshot(h) \/ RecordFusionFails(h)
      PROVE  SilenceInv'
  <2>1. PICK x :
          /\ SetCall(h, x)
          /\ x # None => /\ call[h] # None /\ call[h].phase # "admitted" /\ x.phase = "snapshot"
                         /\ x.batch = call[h].batch
          /\ UNCHANGED <<process, retained, anomalies, engine, scan, crashes>>
    BY <1>0, <1>3, MoveEffect DEF CallMoves, tables
  <2>2. /\ call'[h] = x /\ \A g \in Handlers : g # h => call'[g] = call[g]
    BY <1>0, <2>1, CallEffect
  <2>3. \A g \in Handlers : \A n : InFlight(g, n)' =>
           InFlight(g, n) /\ call'[g].batch = call[g].batch
    BY <2>1, <2>2 DEF InFlight
  <2>4. \A c : Awaited(c)' => Awaited(c)
    BY <2>1, <2>2 DEF Awaited
  <2>5. Taken \subseteq Taken'
    BY <2>1, <2>4, TakenStays
  <2>6. \A t : Silences(t)' = Silences(t) /\ Waiting(t)' = Waiting(t) /\ Armed(t)' = Armed(t)
    BY <2>1 DEF Silences, Waiting, Armed, Alertable
  <2>7. \A t : Waiting(t) <= Waiting(t) /\ Armed(t) <= Armed(t)
    BY <1>b
  <2>8. \A t \in Detections : Paid(Silences(t), Waiting(t), Armed(t), Taken, crashes)'
    BY <1>d, <2>1, <2>5, <2>6, <2>7
  <2> QED
    BY <2>1, <2>3, <2>8 DEF SilenceInv
<1>4. ASSUME NEW h \in Handlers, RecordFusion(h)
      PROVE  SilenceInv'
  <2>1. PICK t, d, b : RecordStep(h, t, d, b)
    BY <1>4, RecordEffect
  <2>2. /\ call[h] # None /\ call[h].phase = "snapshot" /\ call[h].batch = b
        /\ anomalies' = anomalies \cup Insertable(b)
        /\ UNCHANGED <<process, retained, engine, scan, crashes>>
    BY <2>1 DEF RecordStep
  <2>3. /\ call'[h] = None /\ \A g \in Handlers : g # h => call'[g] = call[g]
    BY <1>0, <2>1, CallEffect DEF RecordStep
  <2>4. \A g \in Handlers : \A n : InFlight(g, n)' => InFlight(g, n) /\ call'[g] = call[g]
    BY <2>3 DEF InFlight
  <2>5. \A c : Awaited(c)' => Awaited(c)
    BY <2>3 DEF Awaited
  <2>6. Taken \subseteq Taken'
    BY <2>2, <2>5, TakenStays
  <2>7. \A a \in Insertable(b) : a.kind # "dark-vessel"
    <3>1. ASSUME NEW a \in Insertable(b)
          PROVE  a.kind # "dark-vessel"
      <4>1. PICK n \in DOMAIN b : b[n] = a /\ a # None
        BY InsertableFacts
      <4>2. InFlight(h, n) /\ call[h].batch[n] = a
        BY <2>2, <4>1 DEF InFlight
      <4> QED
        BY <4>2 DEF SilenceInv
    <3> QED
      BY <3>1
  <2>8. \A u : Silences(u)' = Silences(u)
    BY <2>2, <2>7 DEF Silences
  <2>9. \A u : Waiting(u)' <= Waiting(u) /\ Armed(u)' <= Armed(u)
    BY <2>2 DEF Waiting, Armed, Alertable
  <2>10. \A u \in Detections : Paid(Silences(u), Waiting(u), Armed(u), Taken, crashes)'
    BY <1>d, <2>2, <2>6, <2>8, <2>9
  <2> QED
    BY <2>2, <2>4, <2>10 DEF SilenceInv
<1>5. CASE ScanDarkVessels
  <2>1. Scanned(engine, engine', Dark) /\ scan' = {DarkAnomaly(t) : t \in Dark}
    BY <1>5, ScanEffect
  <2>2. /\ process = "serving" /\ scan = {}
        /\ UNCHANGED <<process, retained, anomalies, call, crashes>>
    BY <1>5 DEF ScanDarkVessels, tables
  <2>3. \A u : DarkAnomaly(u).track = u /\ DarkAnomaly(u).kind = "dark-vessel"
    BY DEF DarkAnomaly
  <2>4. /\ \A a, c \in scan' : a.track = c.track => a = c
        /\ \A a \in scan' : a.kind = "dark-vessel"
        /\ \A a \in scan' : a.track \in Dark
    BY <2>1, <2>3
  <2>5. Taken' = Taken /\ \A u : Silences(u)' = Silences(u)
    BY <2>2 DEF Taken, Report, Awaited, Silences
  <2>6. ASSUME NEW u \in Detections
        PROVE  Paid(Silences(u), Waiting(u), Armed(u), Taken, crashes)'
    <3>1. PICK S : S = Silences(u)
      OBVIOUS
    <3>2. PICK T : T = Taken
      OBVIOUS
    <3>3. PICK a \in {0, 1} : a = Armed(u)
      BY <1>b
    <3>4. PICK v \in {0, 1}, c \in {0, 1} : v = Waiting(u)' /\ c = Armed(u)'
      BY <1>c
    <3>5. Waiting(u) = 0
      BY <2>2 DEF Waiting
    <3>6. v + c <= a
      <4>1. CASE u \in Dark
        <5>1. a = 1
          BY <3>3, <4>1 DEF Armed, Alertable, Dark
        <5>2. ~Alertable(engine', u)
          BY <2>1, <4>1 DEF Scanned, Alertable, Dark
        <5>3. c = 0
          BY <2>2, <3>4, <5>2 DEF Armed
        <5> QED
          BY <5>1, <5>3
      <4>2. CASE u \notin Dark
        <5>1. v = 0
          BY <2>4, <3>4, <4>2 DEF Waiting
        <5>2. Alertable(engine', u) => Alertable(engine, u)
          BY <2>1, <4>2 DEF Scanned, Alertable
        <5>3. c <= a
          BY <2>2, <3>3, <3>4, <5>2 DEF Armed
        <5> QED
          BY <5>1, <5>3
      <4> QED
        BY <4>1, <4>2
    <3>7. Paid(S, 0, a, T, crashes)
      BY <3>1, <3>2, <3>3, <3>5 DEF SilenceInv
    <3>8. IsFiniteSet(T) /\ Cardinality(T) \in Nat
      BY <1>a, <3>2, FS_CardinalityType
    <3>9. (v + c) + (crashes + Cardinality(T)) <= (0 + a) + (crashes + Cardinality(T))
      BY <1>a, <3>6, <3>8
    <3>10. Paid(S, v, c, T, crashes)
      BY <1>a, <3>7, <3>8, <3>9, PaidStays
    <3> QED
      BY <2>2, <2>5, <3>1, <3>2, <3>4, <3>10 DEF Paid
  <2>7. \A g, n : InFlight(g, n)' <=> InFlight(g, n)
    BY <2>2 DEF InFlight
  <2> QED
    BY <2>2, <2>4, <2>6, <2>7 DEF SilenceInv
<1>6. CASE RecordAnomalies
  <2>1. /\ anomalies' = anomalies \cup scan /\ scan' = {}
        /\ UNCHANGED <<process, retained, engine, call, crashes>>
    BY <1>6 DEF RecordAnomalies
  <2>2. Taken' = Taken /\ \A u : Armed(u)' = Armed(u) /\ Waiting(u)' = 0
    BY <2>1 DEF Taken, Report, Awaited, Armed, Alertable, Waiting
  <2>3. ASSUME NEW u \in Detections
        PROVE  Paid(Silences(u), Waiting(u), Armed(u), Taken, crashes)'
    <3>1. PICK S : S = Silences(u)
      OBVIOUS
    <3>2. PICK T : T = Taken
      OBVIOUS
    <3>3. PICK a \in Nat : a = Armed(u)
      BY <1>b
    <3>4. Paid(S, Waiting(u), a, T, crashes) /\ IsFiniteSet(T)
      BY <1>a, <3>1, <3>2, <3>3 DEF SilenceInv
    <3>5. CASE \E x \in scan : x.track = u
      <4>1. PICK x \in scan : x.track = u
        BY <3>5
      <4>2. \A y \in scan : y.track = u => y = x
        BY <4>1 DEF SilenceInv
      <4>3. Silences(u)' = S \cup {x}
        BY <2>1, <3>1, <4>1, <4>2 DEF Silences, SilenceInv
      <4>4. Waiting(u) = 1
        BY <3>5 DEF Waiting
      <4>5. Paid(S \cup {x}, 0, a, T, crashes)
        BY <1>a, <3>4, <4>4, PaidRecord
      <4> QED
        BY <2>1, <2>2, <3>2, <3>3, <4>3, <4>5 DEF Paid
    <3>6. CASE ~\E x \in scan : x.track = u
      <4>1. Silences(u)' = S
        BY <2>1, <3>1, <3>6 DEF Silences
      <4>2. Waiting(u) = 0
        BY <3>6 DEF Waiting
      <4> QED
        BY <2>1, <2>2, <3>2, <3>3, <3>4, <4>1, <4>2 DEF Paid
    <3> QED
      BY <3>5, <3>6
  <2>4. \A g, n : InFlight(g, n)' <=> InFlight(g, n)
    BY <2>1 DEF InFlight
  <2> QED
    BY <2>1, <2>3, <2>4 DEF SilenceInv
<1>7. CASE Crash
  <2>1. /\ process' = "down" /\ \A h \in Handlers : call'[h] = None
        /\ UNCHANGED <<retained, anomalies>> /\ scan' = {} /\ crashes' = crashes + 1
    BY <1>7 DEF Crash, tables
  <2>2. \A c : ~Awaited(c)'
    BY <2>1 DEF Awaited
  <2>3. Taken \subseteq Taken'
    BY <2>1, <2>2, TakenStays
  <2>4. \A u : Silences(u)' = Silences(u) /\ Waiting(u)' = 0 /\ Armed(u)' = 1
    BY <2>1 DEF Silences, Waiting, Armed
  <2>5. ASSUME NEW u \in Detections
        PROVE  Paid(Silences(u), Waiting(u), Armed(u), Taken, crashes)'
    <3>1. PICK S : S = Silences(u)
      OBVIOUS
    <3>2. PICK T : T = Taken
      OBVIOUS
    <3>3. PICK U : U = Taken'
      OBVIOUS
    <3>4. PICK w \in Nat, a \in Nat : w = Waiting(u) /\ a = Armed(u)
      BY <1>b
    <3>5. PICK k \in Nat, l \in Nat : k = crashes /\ l = crashes' /\ l = k + 1
      BY <1>a, <2>1
    <3>6. Paid(S, w, a, T, k) /\ IsFiniteSet(T) /\ IsFiniteSet(U) /\ T \in SUBSET U
      BY <1>a, <2>3, <3>1, <3>2, <3>3, <3>4, <3>5 DEF SilenceInv
    <3>7. Cardinality(T) <= Cardinality(U) /\ Cardinality(T) \in Nat /\ Cardinality(U) \in Nat
      BY <3>6, FS_Subset, FS_CardinalityType
    <3>8. (0 + 1) + (k + Cardinality(T)) <= (w + a) + (l + Cardinality(U))
      BY <3>5, <3>7
    <3>9. Paid(S, 0, 1, U, l)
      BY <3>6, <3>8, PaidStays
    <3> QED
      BY <2>4, <3>1, <3>3, <3>5, <3>9 DEF Paid
  <2> QED
    BY <2>1, <2>5 DEF SilenceInv, InFlight
<1>8. CASE Restart \/ ReplayNext \/ Serve
  <2>1. /\ process # "serving" /\ UNCHANGED <<retained, anomalies, call, scan, crashes>>
    BY <1>8 DEF Restart, ReplayNext, Serve, tables
  <2>2. Taken' = Taken /\ \A u : Silences(u)' = Silences(u) /\ Waiting(u)' = Waiting(u)
    BY <2>1 DEF Taken, Report, Awaited, Silences, Waiting
  <2>3. \A u : Armed(u) = 1
    BY <2>1 DEF Armed
  <2>4. \A u : Waiting(u)' <= Waiting(u) /\ Armed(u)' <= Armed(u)
    BY <1>b, <1>c, <2>2, <2>3
  <2>5. \A u \in Detections : Paid(Silences(u), Waiting(u), Armed(u), Taken, crashes)'
    BY <1>d, <2>1, <2>2, <2>4
  <2>6. \A g, n : InFlight(g, n)' <=> InFlight(g, n)
    BY <2>1 DEF InFlight
  <2> QED
    BY <2>1, <2>5, <2>6 DEF SilenceInv
<1>9. CASE RecordAnomaliesFails \/ Tick \/ UNCHANGED vars
  <2>1. /\ UNCHANGED <<process, engine, retained, anomalies, call, crashes>>
        /\ scan' = scan \/ scan' = {}
    BY <1>9 DEF RecordAnomaliesFails, Tick, tables, vars
  <2>2. Taken' = Taken /\ \A u : Silences(u)' = Silences(u) /\ Armed(u)' = Armed(u)
    BY <2>1 DEF Taken, Report, Awaited, Silences, Armed, Alertable
  <2>3. \A u : Waiting(u)' <= Waiting(u) /\ Armed(u)' <= Armed(u)
    BY <1>b, <2>1, <2>2 DEF Waiting
  <2>4. \A u \in Detections : Paid(Silences(u), Waiting(u), Armed(u), Taken, crashes)'
    BY <1>d, <2>1, <2>2, <2>3
  <2>5. \A g, n : InFlight(g, n)' <=> InFlight(g, n)
    BY <2>1 DEF InFlight
  <2> QED
    BY <2>1, <2>4, <2>5 DEF SilenceInv
<1> QED
  BY <1>1, <1>2, <1>3, <1>4, <1>5, <1>6, <1>7, <1>8, <1>9 DEF Next

\* One behaviour is announced once (AnnouncedOnce): a meeting of two tracks at most
\* once in each life of the process, whichever of them reports next and however the
\* handlers race, and a silence at most once for each AIS report and each restart.
THEOREM BehaviourAnnouncedOnce == Spec => []AnnouncedOnce
<1>1. Spec => [](Core /\ SeatInv /\ MeetingInv /\ SilenceInv)
  BY CoreInit, CoreStep, SeatInit, SeatStep, MeetingInit, MeetingStep, SilenceInit, SilenceStep,
     PTL DEF Spec
<1>2. Core /\ MeetingInv /\ SilenceInv => AnnouncedOnce
  BY MeetingProperty, SilenceProperty DEF AnnouncedOnce
<1> QED
  BY <1>1, <1>2, PTL

=============================================================================
