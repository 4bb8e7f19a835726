-------------------------- MODULE FeedTrustProofs --------------------------
(***************************************************************************)
(* Proofs about FeedTrust for any sources, keys, payloads and operators    *)
(* and any clock.                                                          *)
(***************************************************************************)
EXTENDS FeedTrust, TLAPS

IInv == TypeOK /\ EvidenceIsTraceable /\ DetectionAnnouncedOnce

\* Evidence m of a source is by its active key or by one of its recorded keys.
Traceable(s, m) ==
    m = None \/ (/\ sources[s] # None
                 /\ m.key = sources[s].key \/ rotations[s][m.key] # None)

-----------------------------------------------------------------------------
(* Type correctness                                                        *)

\* A source keeps its type when it is registered, revoked or rotated.
LEMMA TrustTypeOK ==
    ASSUME TypeOK,
           \/ \E s \in Sources, k \in Keys, active \in BOOLEAN : RegisterFeedSource(s, k, active)
           \/ \E s \in Sources, evidence \in Evidences : RevokeFeedSource(s, evidence)
           \/ \E o \in Operators, s \in Sources, k \in Keys, grace \in 1..(MaxTime + MaxGrace) :
                 RotateBegin(o, s, k, grace)
           \/ \E o \in Operators : RotateCommit(o) \/ RotateAborted(o)
    PROVE  TypeOK'
<1>1. ASSUME NEW s \in Sources, NEW k \in Keys, NEW active \in BOOLEAN,
             RegisterFeedSource(s, k, active)
      PROVE  TypeOK'
  <2>1. [key |-> k, active |-> active] \in Source
    BY DEF Source
  <2>2. sources' \in [Sources -> Source \cup {None}]
    BY <1>1, <2>1 DEF RegisterFeedSource, TypeOK
  <2> QED
    BY <1>1, <2>2 DEF RegisterFeedSource, TypeOK, admitted
<1>2. ASSUME NEW s \in Sources, NEW evidence \in Evidences, RevokeFeedSource(s, evidence)
      PROVE  TypeOK'
  <2>1. sources[s] \in Source
    BY <1>2 DEF RevokeFeedSource, TypeOK
  <2>2. [sources[s] EXCEPT !.active = FALSE] \in Source
    BY <2>1 DEF Source
  <2>3. sources' \in [Sources -> Source \cup {None}]
    BY <1>2, <2>2 DEF RevokeFeedSource, TypeOK
  <2>4. revocations' \in [Sources -> Evidences \cup {None}]
    BY <1>2 DEF RevokeFeedSource, TypeOK
  <2> QED
    BY <1>2, <2>3, <2>4 DEF RevokeFeedSource, TypeOK, admitted
<1>3. ASSUME NEW o \in Operators, NEW s \in Sources, NEW k \in Keys,
             NEW grace \in 1..(MaxTime + MaxGrace), RotateBegin(o, s, k, grace)
      PROVE  TypeOK'
  <2>1. grace \in Nat
    BY ConstantsAssumption
  <2>2. [source |-> s, key |-> k, grace |-> grace, at |-> now] \in RotationCall
    BY <2>1 DEF RotationCall, TypeOK
  <2> QED
    BY <1>3, <2>2 DEF RotateBegin, TypeOK, trust, admitted
<1>4. ASSUME NEW o \in Operators, RotateCommit(o)
      PROVE  TypeOK'
  <2> DEFINE r == rotating[o]
             prior == sources[r.source].key
  <2>1. r \in RotationCall
    BY <1>4 DEF RotateCommit, TypeOK
  <2>2. r.source \in Sources /\ r.key \in Keys /\ r.grace \in Nat /\ r.at \in Time
    BY <2>1 DEF RotationCall
  <2>3. sources[r.source] \in Source /\ prior \in Keys
    BY <1>4, <2>2 DEF RotateCommit, Rotatable, TypeOK, Source
  <2>4. [sources[r.source] EXCEPT !.key = r.key] \in Source
    BY <2>2, <2>3 DEF Source
  <2>5. sources' \in [Sources -> Source \cup {None}]
    BY <1>4, <2>4 DEF RotateCommit, TypeOK
  <2>6. [grace |-> r.grace, at |-> r.at] \in Rotation
    BY <2>2 DEF Rotation
  <2>7. rotations' \in [Sources -> [Keys -> Rotation \cup {None}]]
    BY <1>4, <2>2, <2>3, <2>6 DEF RotateCommit, RetireKey, TypeOK
  <2>8. rotating' \in [Operators -> RotationCall \cup {None}]
    BY <1>4 DEF RotateCommit, TypeOK
  <2> QED
    BY <1>4, <2>5, <2>7, <2>8 DEF RotateCommit, TypeOK, admitted
<1>5. ASSUME NEW o \in Operators, RotateAborted(o)
      PROVE  TypeOK'
  BY <1>5 DEF RotateAborted, TypeOK, trust, admitted
<1> QED
  BY <1>1, <1>2, <1>3, <1>4, <1>5

\* An admission keeps the types; that a detection without a row has not been
\* announced is what keeps its count at one.
LEMMA AdmissionTypeOK ==
    ASSUME TypeOK, DetectionAnnouncedOnce, NEW s \in Sources,
           \/ \E m \in Signed, v \in FeedEvents : AdmitFeedEvent(s, v, m) \/ AdmitFeedIncident(s, v, m)
           \/ \E m \in Signed, v \in Detections : AdmitDetection(s, v, m)
           \/ \E v \in FeedEvents, payload \in Payloads : CreateByPrincipal(s, v, payload)
    PROVE  TypeOK'
<1>1. ASSUME NEW m \in Signed, NEW v \in FeedEvents, AdmitFeedEvent(s, v, m)
      PROVE  TypeOK'
  BY <1>1 DEF AdmitFeedEvent, TypeOK, trust
<1>2. ASSUME NEW m \in Signed, NEW v \in FeedEvents, AdmitFeedIncident(s, v, m)
      PROVE  TypeOK'
  <2>1. [by |-> "feed", payload |-> m.payload] \in Incident
    BY DEF Incident, Signed
  <2>2. incidents' \in [Sources -> [FeedEvents -> Incident \cup {None}]]
    BY <1>2, <2>1 DEF AdmitFeedIncident, TypeOK
  <2>3. events' \in [Sources -> [FeedEvents -> Signed \cup {None}]]
    BY <1>2 DEF AdmitFeedIncident, TypeOK
  <2> QED
    BY <1>2, <2>2, <2>3 DEF AdmitFeedIncident, TypeOK, trust
<1>3. ASSUME NEW m \in Signed, NEW v \in Detections, AdmitDetection(s, v, m)
      PROVE  TypeOK'
  <2>1. announced[s][v] = 0
    BY <1>3 DEF AdmitDetection, Unretained, DetectionAnnouncedOnce
  <2>2. announced' \in [Sources -> [Detections -> 0..1]]
    BY <1>3, <2>1 DEF AdmitDetection, TypeOK
  <2>3. detections' \in [Sources -> [Detections -> Signed \cup {None}]]
    BY <1>3 DEF AdmitDetection, TypeOK
  <2> QED
    BY <1>3, <2>2, <2>3 DEF AdmitDetection, TypeOK, trust
<1>4. ASSUME NEW v \in FeedEvents, NEW payload \in Payloads, CreateByPrincipal(s, v, payload)
      PROVE  TypeOK'
  <2>1. [by |-> "principal", payload |-> payload] \in Incident
    BY DEF Incident
  <2> QED
    BY <1>4, <2>1 DEF CreateByPrincipal, TypeOK, trust
<1> QED
  BY <1>1, <1>2, <1>3, <1>4

\* Every step keeps the types.
LEMMA NextTypeOK == TypeOK /\ DetectionAnnouncedOnce /\ [Next]_vars => TypeOK'
<1> SUFFICES ASSUME TypeOK, DetectionAnnouncedOnce, [Next]_vars PROVE TypeOK'
  OBVIOUS
<1>1. CASE Tick
  BY <1>1, ConstantsAssumption DEF Tick, Time, TypeOK, trust, admitted
<1>2. CASE UNCHANGED vars
  BY <1>2 DEF vars, TypeOK
<1> QED
  BY <1>1, <1>2, TrustTypeOK, AdmissionTypeOK DEF Next

-----------------------------------------------------------------------------
(* Traceable evidence                                                      *)

\* A source is never deleted, its key is replaced only by one rotation that
\* records the prior key, and what is recorded stays recorded.
LEMMA TrustMoves ==
    ASSUME TypeOK, [Next]_vars, NEW s \in Sources
    PROVE  /\ \A k \in Keys : rotations[s][k] # None => rotations'[s][k] # None
           /\ sources[s] # None =>
                 /\ sources'[s] # None
                 /\ \/ sources'[s].key = sources[s].key
                    \/ sources[s].active /\ rotations'[s][sources[s].key] # None
<1> DEFINE Goal ==
    /\ \A k \in Keys : rotations[s][k] # None => rotations'[s][k] # None
    /\ sources[s] # None =>
          /\ sources'[s] # None
          /\ \/ sources'[s].key = sources[s].key
             \/ sources[s].active /\ rotations'[s][sources[s].key] # None
<1>1. ASSUME NEW t \in Sources, NEW k \in Keys, NEW active \in BOOLEAN,
             RegisterFeedSource(t, k, active)
      PROVE  Goal
  <2>1. [key |-> k, active |-> active] # None
    BY NoneAssumption DEF Source
  <2> QED
    BY <1>1, <2>1 DEF RegisterFeedSource, Registrable, TypeOK
<1>2. ASSUME NEW t \in Sources, NEW evidence \in Evidences, RevokeFeedSource(t, evidence)
      PROVE  Goal
  <2>1. sources[t] \in Source
    BY <1>2 DEF RevokeFeedSource, TypeOK
  <2>2. /\ [sources[t] EXCEPT !.active = FALSE] # None
        /\ [sources[t] EXCEPT !.active = FALSE].key = sources[t].key
    BY <2>1, NoneAssumption DEF Source
  <2> QED
    BY <1>2, <2>2 DEF RevokeFeedSource, TypeOK
<1>3. ASSUME NEW o \in Operators, RotateCommit(o)
      PROVE  Goal
  <2> DEFINE r == rotating[o]
             t == r.source
             prior == sources[t].key
             record == [grace |-> r.grace, at |-> r.at]
  <2>1. r \in RotationCall
    BY <1>3 DEF RotateCommit, TypeOK
  <2>2. t \in Sources /\ r.key \in Keys /\ record \in Rotation
    BY <2>1 DEF RotationCall, Rotation
  <2>3. sources[t] \in Source /\ sources[t].active /\ prior \in Keys
    BY <1>3, <2>2 DEF RotateCommit, Rotatable, TypeOK, Source
  <2>4. [sources[t] EXCEPT !.key = r.key] # None
    BY <2>2, <2>3, NoneAssumption DEF Source
  <2>5. record # None
    BY <2>2, NoneAssumption
  <2>6. /\ sources' = [sources EXCEPT ![t].key = r.key]
        /\ rotations' = [rotations EXCEPT ![t][prior] = record]
    BY <1>3 DEF RotateCommit, RetireKey
  <2> HIDE DEF r, t, prior, record
  <2>7. \A k \in Keys : rotations[s][k] # None => rotations'[s][k] # None
    BY <2>2, <2>3, <2>5, <2>6 DEF TypeOK
  <2>8. CASE s = t
    BY <2>2, <2>3, <2>4, <2>5, <2>6, <2>7, <2>8 DEF TypeOK, prior
  <2>9. CASE s # t
    BY <2>6, <2>7, <2>9 DEF TypeOK
  <2> QED
    BY <2>8, <2>9
<1>4. CASE UNCHANGED <<sources, rotations>>
  BY <1>4
<1> QED
  BY <1>1, <1>2, <1>3, <1>4
  DEF Next, RotateBegin, RotateAborted, AdmitFeedEvent, AdmitFeedIncident, AdmitDetection,
      CreateByPrincipal, Tick, trust, vars

\* Evidence that passes the checks is traceable.
LEMMA AdmissibleIsTraceable ==
    ASSUME NEW s \in Sources, NEW m, Admissible(s, m)
    PROVE  Traceable(s, m)
BY DEF Admissible, Traceable, GraceKeys, InGrace

\* Retained events and detections never change, and new ones passed the checks.
LEMMA EvidenceMoves ==
    ASSUME TypeOK, [Next]_vars, NEW s \in Sources
    PROVE  /\ \A v \in FeedEvents :
                 \/ events'[s][v] = events[s][v]
                 \/ /\ events[s][v] = None
                    /\ Admissible(s, events'[s][v]) /\ UNCHANGED trust
           /\ \A v \in Detections :
                 \/ detections'[s][v] = detections[s][v] /\ announced'[s][v] = announced[s][v]
                 \/ \E m \in Signed : AdmitDetection(s, v, m)
<1> DEFINE Goal ==
    /\ \A v \in FeedEvents :
          \/ events'[s][v] = events[s][v]
          \/ /\ events[s][v] = None
             /\ Admissible(s, events'[s][v]) /\ UNCHANGED trust
    /\ \A v \in Detections :
          \/ detections'[s][v] = detections[s][v] /\ announced'[s][v] = announced[s][v]
          \/ \E m \in Signed : AdmitDetection(s, v, m)
<1>1. ASSUME NEW t \in Sources, NEW m \in Signed, NEW v \in FeedEvents,
             AdmitFeedEvent(t, v, m) \/ AdmitFeedIncident(t, v, m)
      PROVE  Goal
  <2>1. /\ Admissible(t, m) /\ UNCHANGED trust /\ UNCHANGED <<detections, announced>>
        /\ \/ events' = events
           \/ events[t][v] = None /\ events' = [events EXCEPT ![t][v] = m]
    <3>1. CASE AdmitFeedEvent(t, v, m)
      BY <3>1 DEF AdmitFeedEvent
    <3>2. CASE AdmitFeedIncident(t, v, m) /\ events[t][v] = None
      BY <3>2 DEF AdmitFeedIncident, TypeOK
    <3>3. CASE AdmitFeedIncident(t, v, m) /\ events[t][v] # None
      <4>1. events' = [events EXCEPT ![t][v] = @]
        BY <3>3 DEF AdmitFeedIncident
      <4>2. events' = events
        BY <4>1 DEF TypeOK
      <4> QED
        BY <3>3, <4>2 DEF AdmitFeedIncident
    <3> QED
      BY <1>1, <3>1, <3>2, <3>3
  <2>2. \A u \in FeedEvents :
            \/ events'[s][u] = events[s][u]
            \/ events[s][u] = None /\ s = t /\ events'[s][u] = m
    BY <2>1 DEF TypeOK
  <2> QED
    BY <2>1, <2>2
<1>2. ASSUME NEW t \in Sources, NEW m \in Signed, NEW v \in Detections, AdmitDetection(t, v, m)
      PROVE  Goal
  <2>1. /\ events' = events
        /\ detections' = [detections EXCEPT ![t][v] = m]
        /\ announced' = [announced EXCEPT ![t][v] = @ + 1]
    BY <1>2 DEF AdmitDetection
  <2>2. ASSUME NEW u \in Detections, ~(s = t /\ u = v)
        PROVE  detections'[s][u] = detections[s][u] /\ announced'[s][u] = announced[s][u]
    BY <2>1, <2>2 DEF TypeOK
  <2> QED
    BY <1>2, <2>1, <2>2
<1>3. CASE UNCHANGED <<events, detections, announced>>
  BY <1>3
<1> QED
  BY <1>1, <1>2, <1>3
  DEF Next, RegisterFeedSource, RevokeFeedSource, RotateBegin, RotateCommit, RotateAborted,
      CreateByPrincipal, Tick, admitted, vars

\* Every signer stays on record.
LEMMA NextSigners == TypeOK /\ SignersAreOnRecord /\ [Next]_vars => SignersAreOnRecord'
<1> SUFFICES ASSUME TypeOK, SignersAreOnRecord, [Next]_vars PROVE SignersAreOnRecord'
  OBVIOUS
<1>1. \A s \in Sources : /\ \A v \in FeedEvents : Traceable(s, events[s][v])
                         /\ \A v \in Detections : Traceable(s, detections[s][v])
  BY DEF SignersAreOnRecord, Traceable
<1>2. ASSUME NEW s \in Sources, NEW v \in FeedEvents
      PROVE  Traceable(s, events[s][v])'
  <2>1. CASE events'[s][v] = events[s][v]
    <3> DEFINE m == events[s][v]
    <3>1. m \in Signed \cup {None} /\ Traceable(s, m)
      BY <1>1 DEF TypeOK
    <3>2. m \in Signed => m.key \in Keys
      BY DEF Signed
    <3>3. m = None \/ (/\ sources'[s] # None
                       /\ m.key = sources'[s].key \/ rotations'[s][m.key] # None)
      BY <3>1, <3>2, TrustMoves DEF Traceable
    <3> QED
      BY <2>1, <3>3 DEF Traceable
  <2>2. CASE Admissible(s, events'[s][v]) /\ UNCHANGED trust
    <3>1. Traceable(s, events'[s][v])
      BY <2>2, AdmissibleIsTraceable
    <3> QED
      BY <2>2, <3>1 DEF Traceable, trust
  <2> QED
    BY <2>1, <2>2, EvidenceMoves
<1>3. ASSUME NEW s \in Sources, NEW v \in Detections
      PROVE  Traceable(s, detections[s][v])'
  <2>1. CASE detections'[s][v] = detections[s][v]
    <3> DEFINE m == detections[s][v]
    <3>1. m \in Signed \cup {None} /\ Traceable(s, m)
      BY <1>1 DEF TypeOK
    <3>2. m \in Signed => m.key \in Keys
      BY DEF Signed
    <3>3. m = None \/ (/\ sources'[s] # None
                       /\ m.key = sources'[s].key \/ rotations'[s][m.key] # None)
      BY <3>1, <3>2, TrustMoves DEF Traceable
    <3> QED
      BY <2>1, <3>3 DEF Traceable
  <2>2. ASSUME NEW m \in Signed, AdmitDetection(s, v, m)
        PROVE  Traceable(s, detections[s][v])'
    <3>1. detections'[s][v] = m /\ UNCHANGED trust /\ Traceable(s, m)
      BY <2>2, AdmissibleIsTraceable DEF AdmitDetection, TypeOK
    <3> QED
      BY <3>1 DEF Traceable, trust
  <2> QED
    BY <2>1, <2>2, EvidenceMoves
<1> QED
  BY <1>2, <1>3 DEF SignersAreOnRecord, Traceable

\* The incident of a feed stays with its event: an incident appears under a name
\* with the event it agrees with, and neither changes afterwards.
LEMMA NextEvidence == TypeOK /\ FeedIncidentHasEvidence /\ [Next]_vars => FeedIncidentHasEvidence'
<1> SUFFICES ASSUME TypeOK, FeedIncidentHasEvidence, [Next]_vars,
                    NEW s \in Sources, NEW v \in FeedEvents,
                    incidents'[s][v] # None, incidents'[s][v].by = "feed"
             PROVE  events'[s][v] # None /\ events'[s][v].payload = incidents'[s][v].payload
  BY DEF FeedIncidentHasEvidence
<1>1. CASE incidents'[s][v] = incidents[s][v]
  BY <1>1, EvidenceMoves DEF FeedIncidentHasEvidence
<1>2. ASSUME NEW t \in Sources, NEW u \in FeedEvents, NEW m \in Signed, AdmitFeedIncident(t, u, m),
             incidents'[s][v] # incidents[s][v]
      PROVE  events'[s][v] # None /\ events'[s][v].payload = incidents'[s][v].payload
  <2>1. s = t /\ u = v
    BY <1>2 DEF AdmitFeedIncident, TypeOK
  <2>2. incidents'[s][v] = [by |-> "feed", payload |-> m.payload]
    BY <1>2, <2>1 DEF AdmitFeedIncident, TypeOK
  <2>3. events'[s][v] = m
    BY <1>2, <2>1 DEF AdmitFeedIncident, EvidenceAgrees, TypeOK
  <2> QED
    BY <2>2, <2>3, NoneAssumption
<1>3. ASSUME NEW t \in Sources, NEW u \in FeedEvents, NEW payload \in Payloads,
             CreateByPrincipal(t, u, payload)
      PROVE  incidents'[s][v] = incidents[s][v]
  <2>1. incidents' = [incidents EXCEPT ![t][u] = [by |-> "principal", payload |-> payload]]
    BY <1>3 DEF CreateByPrincipal
  <2> QED
    BY <2>1 DEF TypeOK
<1>4. CASE incidents' = incidents
  BY <1>1, <1>4
<1> QED
  BY <1>1, <1>2, <1>3, <1>4
  DEF Next, RegisterFeedSource, RevokeFeedSource, RotateBegin, RotateCommit, RotateAborted,
      AdmitFeedEvent, AdmitDetection, Tick, admitted, vars

\* Each retained detection stays announced once and alone with its event_id.
LEMMA NextAnnounced ==
    TypeOK /\ DetectionAnnouncedOnce /\ [Next]_vars => DetectionAnnouncedOnce'
<1> SUFFICES ASSUME TypeOK, DetectionAnnouncedOnce, [Next]_vars PROVE DetectionAnnouncedOnce'
  OBVIOUS
<1>1. ASSUME NEW s \in Sources, NEW v \in Detections, NEW m \in Signed, AdmitDetection(s, v, m)
      PROVE  DetectionAnnouncedOnce'
  <2>1. /\ detections[s][v] = None /\ ~EventIDTaken(s, v, m.payload)
        /\ detections' = [detections EXCEPT ![s][v] = m]
        /\ announced' = [announced EXCEPT ![s][v] = @ + 1]
    BY <1>1 DEF AdmitDetection, Unretained
  <2>2. m # None
    BY NoneAssumption
  <2>3. ASSUME NEW t \in Sources, NEW u \in Detections
        PROVE  announced'[t][u] = (IF detections'[t][u] = None THEN 0 ELSE 1)
    <3>1. CASE t = s /\ u = v
      BY <2>1, <2>2, <3>1 DEF DetectionAnnouncedOnce, TypeOK
    <3>2. CASE ~(t = s /\ u = v)
      BY <2>1, <3>2 DEF DetectionAnnouncedOnce, TypeOK
    <3> QED
      BY <3>1, <3>2
  <2>4. ASSUME NEW t \in Sources, NEW u \in Detections, ~(t = s /\ u = v)
        PROVE  /\ detections'[t][u] = detections[t][u]
               /\ detections[t][u] # None =>
                     EventIDOf[detections[t][u].payload] # EventIDOf[m.payload]
    <3>1. detections'[t][u] = detections[t][u]
      BY <2>1, <2>4 DEF TypeOK
    <3>2. <<t, u>> # <<s, v>>
      BY <2>4
    <3> QED
      BY <2>1, <3>1, <3>2 DEF EventIDTaken
  <2>5. detections'[s][v] = m
    BY <2>1 DEF TypeOK
  <2>6. ASSUME NEW q \in Sources, NEW w \in Detections, NEW t \in Sources, NEW u \in Detections,
               detections'[q][w] # None, detections'[t][u] # None,
               EventIDOf[detections'[q][w].payload] = EventIDOf[detections'[t][u].payload]
        PROVE  q = t /\ w = u
    BY <2>4, <2>5, <2>6 DEF DetectionAnnouncedOnce
  <2> QED
    BY <2>3, <2>6 DEF DetectionAnnouncedOnce
<1>2. CASE UNCHANGED <<detections, announced>>
  BY <1>2 DEF DetectionAnnouncedOnce
<1> QED
  BY <1>1, <1>2
  DEF Next, RegisterFeedSource, RevokeFeedSource, RotateBegin, RotateCommit, RotateAborted,
      AdmitFeedEvent, AdmitFeedIncident, CreateByPrincipal, Tick, admitted, vars

-----------------------------------------------------------------------------
(* Theorems                                                                *)

\* The inductive invariant of the trust anchors and what is admitted under them.
THEOREM Inductive == Spec => []IInv
<1>1. Init => IInv
  <2> SUFFICES ASSUME Init PROVE IInv
    OBVIOUS
  <2>1. TypeOK
    BY ConstantsAssumption DEF Init, TypeOK, Time
  <2>2. EvidenceIsTraceable
    BY DEF Init, EvidenceIsTraceable, SignersAreOnRecord, FeedIncidentHasEvidence
  <2>3. DetectionAnnouncedOnce
    BY DEF Init, DetectionAnnouncedOnce
  <2> QED
    BY <2>1, <2>2, <2>3 DEF IInv
<1>2. IInv /\ [Next]_vars => IInv'
  BY NextTypeOK, NextSigners, NextEvidence, NextAnnounced DEF IInv, EvidenceIsTraceable
<1> QED
  BY <1>1, <1>2, PTL DEF Spec

\* Trust anchors, evidence, incidents, detections and rotations under way keep
\* their types; no detection is announced more than once.
THEOREM TypeCorrect == Spec => []TypeOK
<1>1. IInv => TypeOK
  BY DEF IInv
<1> QED
  BY <1>1, Inductive, PTL

\* After any sequence of registrations, overlapping rotations and revocations,
\* retained evidence leads to a key its source is on record with, and an incident
\* of a feed to its signed event (RotateFeedSourceKey, AdmitFeedIncident).
THEOREM EvidenceStaysTraceable == Spec => []EvidenceIsTraceable
<1>1. IInv => EvidenceIsTraceable
  BY DEF IInv
<1> QED
  BY <1>1, Inductive, PTL

\* A detection is announced once, however often its source repeats it, and
\* event_id names one detection across all sources (AdmitDetection).
THEOREM AnnouncedExactlyOnce == Spec => []DetectionAnnouncedOnce
<1>1. IInv => DetectionAnnouncedOnce
  BY DEF IInv
<1> QED
  BY <1>1, Inductive, PTL

\* An inactive source admits nothing and keeps its key, also against a rotation
\* that was validated before it was revoked (RotateFeedSourceKey re-reads the
\* row under its lock).
THEOREM InactiveStaysInert == Spec => InactiveSourceIsInert
<1> DEFINE Inert(s) ==
    (sources[s] # None /\ ~sources[s].active) =>
        /\ events'[s] = events[s] /\ detections'[s] = detections[s]
        /\ \A v \in FeedEvents :
              incidents'[s][v] # incidents[s][v] => incidents'[s][v].by = "principal"
        /\ sources'[s].key = sources[s].key
<1>1. ASSUME IInv, [Next]_vars, NEW s \in Sources, sources[s] # None, ~sources[s].active
      PROVE  Inert(s)
  <2>1. ASSUME NEW m PROVE ~Admissible(s, m)
    BY <1>1 DEF Admissible
  <2>2. events'[s] = events[s]
    <3>1. \A v \in FeedEvents : events'[s][v] = events[s][v]
      BY <1>1, <2>1, EvidenceMoves DEF IInv
    <3>2. TypeOK'
      BY <1>1, NextTypeOK DEF IInv
    <3> QED
      BY <1>1, <3>1, <3>2 DEF IInv, TypeOK
  <2>3. detections'[s] = detections[s]
    <3>1. \A v \in Detections : detections'[s][v] = detections[s][v]
      BY <1>1, <2>1, EvidenceMoves DEF IInv, AdmitDetection
    <3>2. TypeOK'
      BY <1>1, NextTypeOK DEF IInv
    <3> QED
      BY <1>1, <3>1, <3>2 DEF IInv, TypeOK
  <2>4. ASSUME NEW v \in FeedEvents, incidents'[s][v] # incidents[s][v]
        PROVE  incidents'[s][v].by = "principal"
    <3>1. ASSUME NEW t \in Sources, NEW u \in FeedEvents, NEW m \in Signed,
                 AdmitFeedIncident(t, u, m)
          PROVE  FALSE
      <4>1. s # t
        BY <2>1, <3>1 DEF AdmitFeedIncident
      <4> QED
        BY <1>1, <2>4, <3>1, <4>1 DEF AdmitFeedIncident, IInv, TypeOK
    <3>2. ASSUME NEW t \in Sources, NEW u \in FeedEvents, NEW payload \in Payloads,
                 CreateByPrincipal(t, u, payload)
          PROVE  incidents'[s][v].by = "principal"
      BY <1>1, <2>4, <3>2 DEF CreateByPrincipal, IInv, TypeOK
    <3> QED
      BY <1>1, <2>4, <3>1, <3>2
      DEF Next, RegisterFeedSource, RevokeFeedSource, RotateBegin, RotateCommit, RotateAborted,
          AdmitFeedEvent, AdmitDetection, Tick, admitted, vars
  <2>5. sources'[s].key = sources[s].key
    BY <1>1, TrustMoves DEF IInv
  <2> QED
    BY <2>2, <2>3, <2>4, <2>5
<1>2. IInv /\ [Next]_vars => [\A s \in Sources : Inert(s)]_vars
  BY <1>1
<1> QED
  BY <1>2, Inductive, PTL DEF Spec, InactiveSourceIsInert
=============================================================================
