--------------------------- MODULE IncidentStore ---------------------------
(***************************************************************************)
(* The incident store of internal/incident/store.go over its PostgreSQL    *)
(* tables, used concurrently by the request handlers of internal/server.   *)
(*                                                                         *)
(* Create, Correlate and the successful half of Assign are single database *)
(* transactions and therefore single steps.  Transition reads the row      *)
(* outside its transaction and updates it later, and a refused Assign      *)
(* re-reads the row after its update matched nothing: those calls take two *)
(* steps and other calls run in between.                                   *)
(*                                                                         *)
(* The outbox table is kept as one sequence per incident: the order of     *)
(* rows of different incidents plays no part here (OutboxDelivery is about *)
(* the order in which they leave).                                         *)
(***************************************************************************)
EXTENDS IncidentModel, Sequences

CONSTANTS
    IncidentIDs,     \* values of maritime_incidents.incident_id
    SourceEvents,    \* values of source_event_id
    Bodies,          \* the compared content of a create request
    Geofences,       \* values of geofence_id
    Evidences,       \* relation, coordinates, digest and author of a correlation
    Principals,      \* values of analyst_id and assigned_by
    Clients,         \* concurrent request handlers
    AssignedVersions, \* bound: the versions at which Assign succeeds
    MaxAhead,        \* bound: how far beyond the current version a caller may guess
    None             \* no row, or no call in progress

VARIABLES
    incidents,       \* table maritime_incidents
    assignments,     \* table maritime_incident_assignments
    correlations,    \* table maritime_incident_spatial_correlations
    outbox,          \* table maritime_incident_outbox, per incident, in commit order
    call,            \* what a two-step call has read so far
    lastReply        \* the answer the last step gave its caller, None if it gave none

tables == <<incidents, assignments, correlations, outbox>>
vars == <<incidents, assignments, correlations, outbox, call, lastReply>>

Row == [source : SourceEvents, body : Bodies, status : Status, version : Nat \ {0}]
Assignment == [analyst : Principals, by : Principals, version : Nat \ {0}]
Case ==
    [source : SourceEvents, body : Bodies, status : Status, version : Nat \ {0},
     assignee : Assignment \cup {None}]
Request == [id : IncidentIDs, source : SourceEvents, body : Bodies]

StatusEvent ==
    [type : {"incident.created", "incident.status_changed"},
     status : Status, version : Nat \ {0}]
AssignedEvent ==
    [type : {"incident.assigned"},
     analyst : Principals, by : Principals, version : Nat \ {0}]
CorrelatedEvent ==
    [type : {"incident.spatial_correlated"}, geofence : Geofences, evidence : Evidences]
Event == StatusEvent \cup AssignedEvent \cup CorrelatedEvent

\* Transition between its read and its update; Assign after its update
\* matched no row.  "known" says that the quoted version existed at that time.
TransitionCall ==
    [op : {"transition"}, id : IncidentIDs, status : Status,
     expected : Nat \ {0}, next : NamedStatus]
AssignCall ==
    [op : {"assign"}, id : IncidentIDs, expected : Nat \ {0}, known : BOOLEAN]

Outcome ==
    {"ok", "not_found", "optimistic_conflict", "invalid_transition",
     "idempotency_conflict", "correlation_conflict", "error"}
Reply ==
    [op : {"create"}, request : Request, outcome : Outcome]
    \cup [op : {"correlate"}, id : IncidentIDs, outcome : Outcome]
    \cup [op : {"transition", "assign"}, id : IncidentIDs, expected : Nat \ {0},
          known : BOOLEAN, version : Nat, outcome : Outcome]

ASSUME NoneAssumption ==
    /\ None \notin Row
    /\ None \notin Case
    /\ None \notin Assignment
    /\ None \notin Evidences
    /\ None \notin TransitionCall
    /\ None \notin AssignCall
ASSUME BoundAssumption == AssignedVersions \subseteq Nat /\ MaxAhead \in Nat

TypeOK ==
    /\ incidents \in [IncidentIDs -> Row \cup {None}]
    /\ assignments \in [IncidentIDs -> Assignment \cup {None}]
    /\ correlations \in [IncidentIDs -> [Geofences -> Evidences \cup {None}]]
    /\ outbox \in [IncidentIDs -> Seq(Event)]
    /\ call \in [Clients -> TransitionCall \cup AssignCall \cup {None}]
    /\ lastReply \in Reply \cup {None}

Init ==
    /\ incidents = [i \in IncidentIDs |-> None]
    /\ assignments = [i \in IncidentIDs |-> None]
    /\ correlations = [i \in IncidentIDs |-> [g \in Geofences |-> None]]
    /\ outbox = [i \in IncidentIDs |-> <<>>]
    /\ call = [c \in Clients |-> None]
    /\ lastReply = None

-----------------------------------------------------------------------------
\* Faulty variant: the transaction commits without its outbox row.
EmitNothing(i, event) == outbox' = outbox

\* INSERT INTO maritime_incident_outbox, in the transaction of the change.
Emit(i, event) == outbox' = [outbox EXCEPT ![i] = Append(@, event)]

ReplyTo(op, i, expected, known, version, outcome) ==
    lastReply' = [op |-> op, id |-> i, expected |-> expected,
                  known |-> known, version |-> version, outcome |-> outcome]

VersionOf(i) == IF incidents[i] = None THEN 0 ELSE incidents[i].version

\* The handlers accept any positive expected_version: versions the incident
\* has had, the current one, and guesses.
Quotable(i) == 1..(VersionOf(i) + MaxAhead)

\* The incident that retains a source event; the table is unique on it.
RetainedFor(source) ==
    {i \in IncidentIDs : incidents[i] # None /\ incidents[i].source = source}

\* Faulty variant: the row starts at version 0.
NewRowUnversioned(request) ==
    [source |-> request.source, body |-> request.body, status |-> "OPEN", version |-> 0]

NewRow(request) ==
    [source |-> request.source, body |-> request.body, status |-> "OPEN", version |-> 1]

\* Create, first branch: the INSERT wins and the event is written with it.
CreateInsert(c, request) ==
    /\ call[c] = None
    /\ RetainedFor(request.source) = {}
    /\ incidents[request.id] = None
    /\ incidents' = [incidents EXCEPT ![request.id] = NewRow(request)]
    /\ Emit(request.id, [type |-> "incident.created", status |-> "OPEN", version |-> 1])
    /\ lastReply' = [op |-> "create", request |-> request, outcome |-> "ok"]
    /\ UNCHANGED <<assignments, correlations, call>>

\* Create, ON CONFLICT (source_event_id) DO NOTHING: the retained row is read
\* and compared; an equal request is answered with it, another is a conflict.
CreateReplay(c, request) ==
    /\ call[c] = None
    /\ \E i \in RetainedFor(request.source) :
          lastReply' = [op |-> "create", request |-> request,
                        outcome |-> IF Matches(i, incidents[i], request)
                                    THEN "ok" ELSE "idempotency_conflict"]
    /\ UNCHANGED <<tables, call>>

\* Create with a new source event but the identifier of another incident:
\* the primary key refuses the INSERT and the transaction rolls back.
CreateDuplicateID(c, request) ==
    /\ call[c] = None
    /\ RetainedFor(request.source) = {}
    /\ incidents[request.id] # None
    /\ lastReply' = [op |-> "create", request |-> request, outcome |-> "error"]
    /\ UNCHANGED <<tables, call>>

\* Transition, first step: the read outside the transaction, the version check
\* and the life-cycle check.  Only a call that passes both goes on to update.
TransitionRead(c, i, expected, next) ==
    /\ call[c] = None
    /\ LET row == incidents[i]
           refuse(outcome) ==
               /\ ReplyTo("transition", i, expected, TRUE, 0, outcome)
               /\ UNCHANGED call
       IN  \/ row = None /\ refuse("not_found")
           \/ row # None /\ row.version # expected /\ refuse("optimistic_conflict")
           \/ /\ row # None /\ row.version = expected
              /\ ~ValidTransition(row.status, next)
              /\ refuse("invalid_transition")
           \/ /\ row # None /\ row.version = expected
              /\ ValidTransition(row.status, next)
              /\ call' = [call EXCEPT ![c] =
                     [op |-> "transition", id |-> i, status |-> row.status,
                      expected |-> expected, next |-> next]]
              /\ lastReply' = None
    /\ UNCHANGED tables

\* Faulty variants: the update finds the row by its identifier alone; by
\* identifier and status; or compares the status with the requested one.
UpdateByID(k) == incidents[k.id] # None
UpdateByStatus(k) == incidents[k.id] # None /\ incidents[k.id].status = k.status
UpdateByNext(k) ==
    /\ incidents[k.id] # None
    /\ incidents[k.id].status = k.next
    /\ incidents[k.id].version = k.expected

\* The WHERE clause of Transition's UPDATE.
UpdateMatches(k) ==
    /\ incidents[k.id] # None
    /\ incidents[k.id].status = k.status
    /\ incidents[k.id].version = k.expected

\* Transition, second step: the conditional UPDATE and its event commit together.
TransitionUpdate(c) ==
    /\ call[c] # None /\ call[c].op = "transition"
    /\ LET k == call[c] IN
        /\ UpdateMatches(k)
        /\ incidents' = [incidents EXCEPT ![k.id].status = k.next, ![k.id].version = @ + 1]
        /\ Emit(k.id, [type |-> "incident.status_changed", status |-> k.next,
                       version |-> incidents[k.id].version + 1])
        /\ ReplyTo("transition", k.id, k.expected, TRUE,
                   incidents[k.id].version + 1, "ok")
    /\ call' = [call EXCEPT ![c] = None]
    /\ UNCHANGED <<assignments, correlations>>

\* Transition, second step: the UPDATE matches no row any more.
TransitionLost(c) ==
    /\ call[c] # None /\ call[c].op = "transition"
    /\ ~UpdateMatches(call[c])
    /\ ReplyTo("transition", call[c].id, call[c].expected, TRUE,
               0, "optimistic_conflict")
    /\ call' = [call EXCEPT ![c] = None]
    /\ UNCHANGED tables

\* Transition, second step: a database error, a cancelled request or the end of
\* the process.  The transaction rolls back and nothing was written.
TransitionAborted(c) ==
    /\ call[c] # None /\ call[c].op = "transition"
    /\ ReplyTo("transition", call[c].id, call[c].expected, TRUE, 0, "error")
    /\ call' = [call EXCEPT ![c] = None]
    /\ UNCHANGED tables

\* Correlate inserts the pair (incident, geofence) and its event, answers an
\* equal repetition with the retained row, refuses a different one, and fails
\* on the foreign key when the incident does not exist.
Correlate(c, i, g, evidence) ==
    /\ call[c] = None
    /\ LET reply(outcome) ==
               lastReply' = [op |-> "correlate", id |-> i, outcome |-> outcome]
       IN  \/ /\ correlations[i][g] # None
              /\ reply(IF correlations[i][g] = evidence
                       THEN "ok" ELSE "correlation_conflict")
              /\ UNCHANGED <<correlations, outbox>>
           \/ /\ correlations[i][g] = None /\ incidents[i] = None
              /\ reply("error")
              /\ UNCHANGED <<correlations, outbox>>
           \/ /\ correlations[i][g] = None /\ incidents[i] # None
              /\ correlations' = [correlations EXCEPT ![i][g] = evidence]
              /\ Emit(i, [type |-> "incident.spatial_correlated",
                          geofence |-> g, evidence |-> evidence])
              /\ reply("ok")
    /\ UNCHANGED <<incidents, assignments, call>>

\* Faulty variants: closed incidents stay assignable; resolved ones do not.
AssignableClosed(i, expected) == incidents[i] # None /\ incidents[i].version = expected
AssignableUnresolved(i, expected) ==
    /\ incidents[i] # None
    /\ incidents[i].version = expected
    /\ incidents[i].status \notin {"RESOLVED", "CLOSED"}

\* The WHERE clause of Assign's UPDATE.
Assignable(i, expected) ==
    /\ incidents[i] # None
    /\ incidents[i].version = expected
    /\ incidents[i].status # "CLOSED"

\* The upsert of the assignment row, one per incident.
PutAssignment(i, row) == assignments' = [assignments EXCEPT ![i] = row]

\* Assign, one transaction: version bump, upsert of the assignment, event.
\* The request was validated: the analyst is not the assigning principal.
AssignUpdate(c, i, expected, analyst, by) ==
    /\ call[c] = None
    /\ analyst # by
    /\ expected \in AssignedVersions
    /\ Assignable(i, expected)
    /\ LET version == incidents[i].version + 1
       IN  /\ incidents' = [incidents EXCEPT ![i].version = version]
           /\ PutAssignment(i, [analyst |-> analyst, by |-> by, version |-> version])
           /\ Emit(i, [type |-> "incident.assigned", analyst |-> analyst,
                       by |-> by, version |-> version])
           /\ ReplyTo("assign", i, expected, TRUE, version, "ok")
    /\ UNCHANGED <<correlations, call>>

\* Assign whose UPDATE matched nothing: the transaction is still open and the
\* row is looked up again on another connection.
AssignMiss(c, i, expected) ==
    /\ call[c] = None
    /\ ~Assignable(i, expected)
    /\ call' = [call EXCEPT ![c] =
           [op |-> "assign", id |-> i, expected |-> expected, known |-> expected <= VersionOf(i)]]
    /\ lastReply' = None
    /\ UNCHANGED tables

\* Assign, the look-up that decides which refusal to report.
AssignDiagnose(c) ==
    /\ call[c] # None /\ call[c].op = "assign"
    /\ LET k == call[c] IN
        ReplyTo("assign", k.id, k.expected, k.known, 0,
                IF incidents[k.id] = None THEN "not_found"
                ELSE IF incidents[k.id].version # k.expected THEN "optimistic_conflict"
                ELSE "invalid_transition")
    /\ call' = [call EXCEPT ![c] = None]
    /\ UNCHANGED tables

\* Assign, a failed look-up: reported as a concurrent change whatever the row is.
AssignDiagnoseFails(c) ==
    /\ call[c] # None /\ call[c].op = "assign"
    /\ ReplyTo("assign", call[c].id, call[c].expected, call[c].known, 0, "optimistic_conflict")
    /\ call' = [call EXCEPT ![c] = None]
    /\ UNCHANGED tables

-----------------------------------------------------------------------------
Create(c, request) ==
    \/ CreateInsert(c, request)
    \/ CreateReplay(c, request)
    \/ CreateDuplicateID(c, request)

Transition(c) ==
    \/ \E i \in IncidentIDs, next \in NamedStatus :
          \E v \in Quotable(i) : TransitionRead(c, i, v, next)
    \/ TransitionUpdate(c)
    \/ TransitionLost(c)
    \/ TransitionAborted(c)

Assign(c) ==
    \/ \E i \in IncidentIDs, analyst, by \in Principals :
          \E v \in Quotable(i) : AssignUpdate(c, i, v, analyst, by)
    \/ \E i \in IncidentIDs : \E v \in Quotable(i) : AssignMiss(c, i, v)
    \/ AssignDiagnose(c)
    \/ AssignDiagnoseFails(c)

Next ==
    \E c \in Clients :
        \/ \E request \in Request : Create(c, request)
        \/ Transition(c)
        \/ \E i \in IncidentIDs, g \in Geofences, e \in Evidences : Correlate(c, i, g, e)
        \/ Assign(c)

Spec == Init /\ [][Next]_vars

-----------------------------------------------------------------------------
(* Safety properties                                                       *)

IsStatusEvent(e) == e.type \in {"incident.created", "incident.status_changed"}
IsVersionedEvent(e) == e.type # "incident.spatial_correlated"

\* No lost or forged version: the versioned events of an incident, in the order
\* they were committed, carry exactly 1, 2, ..., the row's current version.  Two
\* handlers that raced on the same version would leave two events with it, and
\* an update without its outbox row would leave a gap.
VersionHistory ==
    \A i \in IncidentIDs :
        /\ \A v \in 1..VersionOf(i) :
              \E k \in DOMAIN outbox[i] :
                  IsVersionedEvent(outbox[i][k]) /\ outbox[i][k].version = v
        /\ \A k \in DOMAIN outbox[i] :
              IsVersionedEvent(outbox[i][k]) => outbox[i][k].version \in 1..VersionOf(i)
        /\ \A j, k \in DOMAIN outbox[i] :
              (/\ j < k
               /\ IsVersionedEvent(outbox[i][j]) /\ IsVersionedEvent(outbox[i][k]))
                  => outbox[i][j].version < outbox[i][k].version

\* A consumer that replays an incident's status events walks edges of the life
\* cycle and ends at the status in the table, although Transition decides on a
\* row it read before its transaction began.
StatusHistory ==
    \A i \in IncidentIDs :
        /\ \A j, k \in DOMAIN outbox[i] :
              (/\ j < k
               /\ IsStatusEvent(outbox[i][j]) /\ IsStatusEvent(outbox[i][k])
               /\ \A m \in DOMAIN outbox[i] : j < m /\ m < k => ~IsStatusEvent(outbox[i][m]))
                  => ValidTransition(outbox[i][j].status, outbox[i][k].status)
        /\ \A k \in DOMAIN outbox[i] :
              (/\ IsStatusEvent(outbox[i][k])
               /\ \A m \in DOMAIN outbox[i] : k < m => ~IsStatusEvent(outbox[i][m]))
                  => outbox[i][k].status = incidents[i].status

\* The assignment row is the one the latest incident.assigned event announced,
\* and it was written at a version the incident really had.
AssignmentHistory ==
    \A i \in IncidentIDs :
        /\ assignments[i] # None => assignments[i].version \in 2..VersionOf(i)
        /\ \A k \in DOMAIN outbox[i] :
              (outbox[i][k].type = "incident.assigned"
               /\ \A m \in DOMAIN outbox[i] :
                      k < m => outbox[i][m].type # "incident.assigned")
                  => assignments[i] = [analyst |-> outbox[i][k].analyst,
                                       by      |-> outbox[i][k].by,
                                       version |-> outbox[i][k].version]

\* Retained spatial evidence is announced exactly once and never replaced: each
\* pair (incident, geofence) with a row has one event, with the row's evidence.
CorrelationHistory ==
    \A i \in IncidentIDs, g \in Geofences :
        LET announced == {k \in DOMAIN outbox[i] :
                             /\ outbox[i][k].type = "incident.spatial_correlated"
                             /\ outbox[i][k].geofence = g}
        IN  /\ correlations[i][g] # None => announced # {}
            /\ \A k \in announced : outbox[i][k].evidence = correlations[i][g]
            /\ \A j, k \in announced : j = k

\* The outbox tells each incident's history: a consumer that reads it learns
\* every version, status, assignment and correlation the tables went through.
OutboxTellsHistory ==
    VersionHistory /\ StatusHistory /\ AssignmentHistory /\ CorrelationHistory

\* One source event opens at most one incident, whatever identifiers and bodies
\* concurrent creators send, and an accepted create names the retained incident.
SourceOpensOneIncident ==
    /\ \A i, j \in IncidentIDs :
          (incidents[i] # None /\ incidents[j] # None /\ incidents[i].source = incidents[j].source)
              => i = j
    /\ (lastReply # None /\ lastReply.op = "create" /\ lastReply.outcome = "ok")
          => /\ incidents[lastReply.request.id] # None
             /\ Matches(lastReply.request.id, incidents[lastReply.request.id],
                        lastReply.request)

\* Optimistic locking: a change that is confirmed to its caller was made at the
\* version the caller quoted, so nothing the caller had not seen was overwritten.
ConfirmedAtExpectedVersion ==
    (lastReply # None /\ lastReply.op \in {"transition", "assign"} /\ lastReply.outcome = "ok")
        => /\ lastReply.version = lastReply.expected + 1
           /\ VersionOf(lastReply.id) = lastReply.version

\* "incident changed concurrently" is never reported by Transition to a caller
\* whose version is still the current one: a retry with a fresh version is
\* always the right reaction.
TransitionConflictIsReal ==
    (lastReply # None /\ lastReply.op = "transition"
        /\ lastReply.outcome = "optimistic_conflict")
        => VersionOf(lastReply.id) # lastReply.expected

\* Assign answers "invalid incident transition" only for a closed incident,
\* provided the caller quoted a version that existed when the update ran.  (A
\* caller that guesses a future version can race with the writer of that
\* version between the update and the look-up.)
AssignRefusalIsTruthful ==
    (lastReply # None /\ lastReply.op = "assign"
        /\ lastReply.outcome = "invalid_transition" /\ lastReply.known)
        => incidents[lastReply.id].status = "CLOSED"

\* A closed incident is final: neither a late transition nor an assignment that
\* was already under way changes its row or its analyst.
ClosedIsFinal ==
    [][\A i \in IncidentIDs :
          (incidents[i] # None /\ incidents[i].status = "CLOSED")
              => incidents'[i] = incidents[i] /\ assignments'[i] = assignments[i]]_vars

-----------------------------------------------------------------------------
(* Refinement: the two tables together are the cases of IncidentLifecycle.  *)

casesBar ==
    [i \in IncidentIDs |->
        IF incidents[i] = None THEN None
        ELSE [source |-> incidents[i].source, body |-> incidents[i].body,
              status |-> incidents[i].status, version |-> incidents[i].version,
              assignee |-> assignments[i]]]

Lifecycle == INSTANCE IncidentLifecycle WITH cases <- casesBar

\* Every interleaving of handlers has the effect of whole operations applied one
\* after the other to the current state: the read outside Transition's
\* transaction is never acted on after it became stale.
CaseworkIsAtomic == Lifecycle!Spec
=============================================================================
