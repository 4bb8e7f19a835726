----------------------------- MODULE FeedTrust -----------------------------
(***************************************************************************)
(* The trust anchors of signed feeds and what is admitted under them:      *)
(* internal/incident/feed.go (registration, revocation, key rotation,      *)
(* signed events and incidents) and AdmitDetection of internal/isr.        *)
(*                                                                         *)
(* Every operation is one serializable transaction, hence one step, but    *)
(* for RotateFeedSourceKey, which reads the clock and validates the grace  *)
(* deadline before its transaction begins.  A refused operation, and the   *)
(* exact repetition of one, changes no table and is a stuttering step.     *)
(*                                                                         *)
(* A signature is represented by the key it was made with and the fields   *)
(* it covers; the source and the event are the ones it is filed under.     *)
(***************************************************************************)
EXTENDS Integers, FiniteSets

CONSTANTS
    Sources,       \* values of source_id
    Keys,          \* Ed25519 key pairs
    FeedEvents,    \* values of source_event_id used for events and incidents
    Detections,    \* values of source_event_id used for detections
    Payloads,      \* signed payloads
    EventIDOf,     \* the event_id inside a detection payload
    Evidences,     \* reason and principal of a revocation
    Operators,     \* concurrent key rotations
    ReplayWindow,  \* FeedReplayWindow
    ClockSkew,     \* FeedClockSkew
    MaxGrace,      \* the longest grace a rotation may ask for (30 days)
    MaxTime,       \* bound: the clock stops here
    None           \* no row, or no rotation in progress

VARIABLES
    now,           \* the clock
    sources,       \* table maritime_feed_sources
    rotations,     \* table maritime_feed_source_key_rotations, by source and prior key
    revocations,   \* table maritime_feed_source_revocations
    events,        \* table maritime_feed_events
    incidents,     \* incidents whose source_event_id names a feed event
    detections,    \* table maritime_isr_events
    announced,     \* outbox rows of each detection
    rotating       \* rotations between their validation and their transaction

trust == <<sources, rotations, revocations>>
admitted == <<events, incidents, detections, announced>>
vars == <<now, sources, rotations, revocations,
          events, incidents, detections, announced, rotating>>

Time == 0..MaxTime
Source == [key : Keys, active : BOOLEAN]
Rotation == [grace : Nat, at : Time]
Signed == [key : Keys, claimed : Time, payload : Payloads]
Incident == [by : {"feed", "principal"}, payload : Payloads]
RotationCall == [source : Sources, key : Keys, grace : Nat, at : Time]

ASSUME ConstantsAssumption ==
    /\ ReplayWindow \in Nat /\ ClockSkew \in Nat /\ MaxGrace \in Nat /\ MaxTime \in Nat
    /\ EventIDOf \in [Payloads -> {EventIDOf[x] : x \in Payloads}]
ASSUME NoneAssumption ==
    /\ None \notin Source /\ None \notin Rotation /\ None \notin Evidences
    /\ None \notin Signed /\ None \notin Incident /\ None \notin RotationCall

TypeOK ==
    /\ now \in Time
    /\ sources \in [Sources -> Source \cup {None}]
    /\ rotations \in [Sources -> [Keys -> Rotation \cup {None}]]
    /\ revocations \in [Sources -> Evidences \cup {None}]
    /\ events \in [Sources -> [FeedEvents -> Signed \cup {None}]]
    /\ incidents \in [Sources -> [FeedEvents -> Incident \cup {None}]]
    /\ detections \in [Sources -> [Detections -> Signed \cup {None}]]
    /\ announced \in [Sources -> [Detections -> 0..1]]
    /\ rotating \in [Operators -> RotationCall \cup {None}]

Init ==
    /\ now = 0
    /\ sources = [s \in Sources |-> None]
    /\ rotations = [s \in Sources |-> [k \in Keys |-> None]]
    /\ revocations = [s \in Sources |-> None]
    /\ events = [s \in Sources |-> [v \in FeedEvents |-> None]]
    /\ incidents = [s \in Sources |-> [v \in FeedEvents |-> None]]
    /\ detections = [s \in Sources |-> [v \in Detections |-> None]]
    /\ announced = [s \in Sources |-> [v \in Detections |-> 0]]
    /\ rotating = [o \in Operators |-> None]

-----------------------------------------------------------------------------
(* Trust anchors                                                           *)

\* RegisterFeedSource inserts a new source or refreshes one with the same key;
\* any other key is ErrFeedSourceKeyConflict.
Registrable(s, k) == sources[s] # None => sources[s].key = k

RegisterFeedSource(s, k, active) ==
    /\ Registrable(s, k)
    /\ sources' = [sources EXCEPT ![s] = [key |-> k, active |-> active]]
    /\ UNCHANGED <<now, rotations, revocations, admitted, rotating>>

\* RevokeFeedSource of an active source without a retained revocation.  With
\* one, the call only compares the evidence and changes nothing.
RevokeFeedSource(s, evidence) ==
    /\ sources[s] # None
    /\ revocations[s] = None
    /\ sources[s].active
    /\ sources' = [sources EXCEPT ![s].active = FALSE]
    /\ revocations' = [revocations EXCEPT ![s] = evidence]
    /\ UNCHANGED <<now, rotations, admitted, rotating>>

\* RotateFeedSourceKey reads the clock and validates the request.
RotateBegin(o, s, k, grace) ==
    /\ rotating[o] = None
    /\ grace > now /\ grace <= now + MaxGrace
    /\ rotating' = [rotating EXCEPT ![o] =
           [source |-> s, key |-> k, grace |-> grace, at |-> now]]
    /\ UNCHANGED <<now, trust, admitted>>

\* Faulty variant: the state of the source is not checked again under its lock.
RotatableInactive(s, k) == sources[s] # None /\ sources[s].key # k

\* The checks of RotateFeedSourceKey on the locked row.
Rotatable(s, k) == sources[s] # None /\ sources[s].active /\ sources[s].key # k

\* Faulty variant: only the first rotation away from a key is recorded.
RetireKeyOnce(s, k, rotation) ==
    rotations' = [rotations EXCEPT ![s] =
        IF \E j \in Keys : @[j] # None THEN @ ELSE [@ EXCEPT ![k] = rotation]]

\* The upsert of the prior key.
RetireKey(s, k, rotation) == rotations' = [rotations EXCEPT ![s][k] = rotation]

\* RotateFeedSourceKey, its transaction: the prior key is recorded with the time
\* read at the beginning, and the new key becomes the active one.
RotateCommit(o) ==
    /\ rotating[o] # None
    /\ LET r == rotating[o] IN
        /\ Rotatable(r.source, r.key)
        /\ RetireKey(r.source, sources[r.source].key, [grace |-> r.grace, at |-> r.at])
        /\ sources' = [sources EXCEPT ![r.source].key = r.key]
    /\ rotating' = [rotating EXCEPT ![o] = None]
    /\ UNCHANGED <<now, revocations, admitted>>

\* A check fails, or the call ends before it commits.
RotateAborted(o) ==
    /\ rotating[o] # None
    /\ rotating' = [rotating EXCEPT ![o] = None]
    /\ UNCHANGED <<now, trust, admitted>>

-----------------------------------------------------------------------------
(* Admission                                                               *)

\* ValidateFeedFreshness, both ends included.
Fresh(claimed) == claimed >= now - ReplayWindow /\ claimed <= now + ClockSkew

InGrace(s, k) == rotations[s][k] # None /\ rotations[s][k].grace > now

\* The one prior key the signature check falls back to: ORDER BY rotated_at DESC
\* LIMIT 1 among the keys in grace.  Rows with equal times come in any order.
GraceKeys(s) ==
    {k \in Keys : /\ InGrace(s, k)
                  /\ \A j \in Keys : InGrace(s, j) => rotations[s][j].at <= rotations[s][k].at}

\* Faulty variant: the active flag is ignored.
AdmissibleInactive(s, m) ==
    /\ sources[s] # None
    /\ Fresh(m.claimed)
    /\ m.key = sources[s].key \/ m.key \in GraceKeys(s)

\* The checks that an event, an incident and a detection have in common.
Admissible(s, m) ==
    /\ sources[s] # None
    /\ sources[s].active
    /\ Fresh(m.claimed)
    /\ m.key = sources[s].key \/ m.key \in GraceKeys(s)

\* AdmitFeedEvent of an event that is not retained yet.
AdmitFeedEvent(s, v, m) ==
    /\ Admissible(s, m)
    /\ events[s][v] = None
    /\ events' = [events EXCEPT ![s][v] = m]
    /\ UNCHANGED <<now, trust, incidents, detections, announced, rotating>>

\* The event is new or repeated exactly (payload digest and signature).
EvidenceAgrees(s, v, m) == events[s][v] = None \/ events[s][v] = m

\* AdmitFeedIncident retains the event and creates the incident in its payload
\* in one transaction.  Either may be there already, exactly equal; if either
\* conflicts, neither is written.
AdmitFeedIncident(s, v, m) ==
    /\ Admissible(s, m)
    /\ EvidenceAgrees(s, v, m)
    /\ LET incident == [by |-> "feed", payload |-> m.payload]
       IN  /\ incidents[s][v] = None \/ incidents[s][v] = incident
           /\ incidents' = [incidents EXCEPT ![s][v] = incident]
    /\ events' = [events EXCEPT ![s][v] = IF @ = None THEN m ELSE @]
    /\ UNCHANGED <<now, trust, detections, announced, rotating>>

\* POST /v1/incidents: an authenticated principal opens an incident under the
\* source_event_id of a feed event.  Its created_by is the principal.
CreateByPrincipal(s, v, payload) ==
    /\ incidents[s][v] = None
    /\ incidents' = [incidents EXCEPT ![s][v] = [by |-> "principal", payload |-> payload]]
    /\ UNCHANGED <<now, trust, events, detections, announced, rotating>>

\* event_id is the primary key of the detections of all sources.
EventIDTaken(s, v, payload) ==
    \E t \in Sources, u \in Detections :
        /\ <<t, u>> # <<s, v>>
        /\ detections[t][u] # None
        /\ EventIDOf[detections[t][u].payload] = EventIDOf[payload]

\* Faulty variant: every admission writes an outbox row, repetitions too.
UnretainedAlways(s, v) == TRUE

\* ON CONFLICT (source_id, source_event_id) DO NOTHING returned a row.
Unretained(s, v) == detections[s][v] = None

\* AdmitDetection of a new detection, with its outbox row.
AdmitDetection(s, v, m) ==
    /\ Admissible(s, m)
    /\ Unretained(s, v)
    /\ ~EventIDTaken(s, v, m.payload)
    /\ detections' = [detections EXCEPT ![s][v] = m]
    /\ announced' = [announced EXCEPT ![s][v] = @ + 1]
    /\ UNCHANGED <<now, trust, events, incidents, rotating>>

Tick ==
    /\ now < MaxTime
    /\ now' = now + 1
    /\ UNCHANGED <<trust, admitted, rotating>>

-----------------------------------------------------------------------------
Next ==
    \/ \E s \in Sources, k \in Keys :
          \/ \E active \in BOOLEAN : RegisterFeedSource(s, k, active)
          \/ \E o \in Operators, grace \in 1..(MaxTime + MaxGrace) : RotateBegin(o, s, k, grace)
    \/ \E s \in Sources, evidence \in Evidences : RevokeFeedSource(s, evidence)
    \/ \E o \in Operators : RotateCommit(o) \/ RotateAborted(o)
    \/ \E s \in Sources, m \in Signed :
          \/ \E v \in FeedEvents : AdmitFeedEvent(s, v, m) \/ AdmitFeedIncident(s, v, m)
          \/ \E v \in Detections : AdmitDetection(s, v, m)
    \/ \E s \in Sources, v \in FeedEvents, payload \in Payloads :
          CreateByPrincipal(s, v, payload)
    \/ Tick

Spec == Init /\ [][Next]_vars

-----------------------------------------------------------------------------
(* Properties                                                              *)

\* The key that signed a retained event or detection is the active key of its
\* source or recorded as one of its prior keys, after any sequence of rotations,
\* also when keys come back and rotations overlap (RotateFeedSourceKey).
SignersAreOnRecord ==
    \A s \in Sources :
        LET traceable(m) == m = None \/ (/\ sources[s] # None
                                         /\ \/ m.key = sources[s].key
                                            \/ rotations[s][m.key] # None)
        IN  /\ \A v \in FeedEvents : traceable(events[s][v])
            /\ \A v \in Detections : traceable(detections[s][v])

\* An incident attributed to a feed stands on a retained event of that feed with
\* the same payload: the two are written together or not at all, whichever of
\* the endpoints came first and whatever a principal filed under the same name.
FeedIncidentHasEvidence ==
    \A s \in Sources, v \in FeedEvents :
        (incidents[s][v] # None /\ incidents[s][v].by = "feed")
            => events[s][v] # None /\ events[s][v].payload = incidents[s][v].payload

\* What came in through a feed stays verifiable: an incident leads to its signed
\* event, and a signed event to a key the source is on record with.
EvidenceIsTraceable == SignersAreOnRecord /\ FeedIncidentHasEvidence

\* Each retained detection is announced exactly once on the ISR topic, however
\* often its source repeats it, and no two retained detections share an event_id.
DetectionAnnouncedOnce ==
    \A s \in Sources, v \in Detections :
        /\ announced[s][v] = (IF detections[s][v] = None THEN 0 ELSE 1)
        /\ \A t \in Sources, u \in Detections :
              ( /\ detections[s][v] # None /\ detections[t][u] # None
                /\ EventIDOf[detections[s][v].payload] = EventIDOf[detections[t][u].payload] )
                  => s = t /\ v = u

\* A source that is not active changes nothing: no evidence, incident or
\* detection is admitted under it, and a rotation that was under way when it
\* was revoked does not replace its key.
InactiveSourceIsInert ==
    [][\A s \in Sources :
          (sources[s] # None /\ ~sources[s].active) =>
              /\ events'[s] = events[s] /\ detections'[s] = detections[s]
              /\ \A v \in FeedEvents :
                    incidents'[s][v] # incidents[s][v] => incidents'[s][v].by = "principal"
              /\ sources'[s].key = sources[s].key]_vars

=============================================================================
