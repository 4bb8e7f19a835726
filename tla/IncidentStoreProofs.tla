------------------------ MODULE IncidentStoreProofs ------------------------
(***************************************************************************)
(* Proofs about IncidentStore for any number of incidents, clients and     *)
(* versions.                                                               *)
(***************************************************************************)
EXTENDS IncidentStore, TLAPS

\* What a two-step call has read is still true of the row or the row's version
\* has moved on.  A transition in progress holds an edge of the life cycle whose
\* source is the row's status as long as the version is the one it read; a
\* refused assignment at a version that existed was refused because the
\* incident is closed, as long as that version is the current one.
SnapshotInv ==
    \A c \in Clients :
        /\ (call[c] # None /\ call[c].op = "transition") =>
              /\ incidents[call[c].id] # None
              /\ call[c].expected <= incidents[call[c].id].version
              /\ ValidTransition(call[c].status, call[c].next)
              /\ incidents[call[c].id].version = call[c].expected
                    => incidents[call[c].id].status = call[c].status
        /\ (call[c] # None /\ call[c].op = "assign" /\ call[c].known) =>
              /\ incidents[call[c].id] # None
              /\ call[c].expected <= incidents[call[c].id].version
              /\ incidents[call[c].id].version = call[c].expected
                    => incidents[call[c].id].status = "CLOSED"

-----------------------------------------------------------------------------
(* Type correctness                                                        *)

\* Init establishes the type invariant.
LEMMA InitTypeOK == Init => TypeOK
<1> SUFFICES ASSUME Init PROVE TypeOK
  OBVIOUS
<1>1. \A i \in IncidentIDs : <<>> \in Seq(Event)
  OBVIOUS
<1> QED
  BY <1>1 DEF Init, TypeOK

\* Create inserts a well-typed row and event or leaves the tables alone.
LEMMA CreateTypeOK ==
    ASSUME TypeOK, NEW c \in Clients, NEW request \in Request, Create(c, request)
    PROVE  TypeOK'
<1>1. CASE CreateInsert(c, request)
  <2>1. NewRow(request) \in Row
    BY DEF NewRow, Row, Request, Status
  <2>2. incidents' \in [IncidentIDs -> Row \cup {None}]
    BY <1>1, <2>1 DEF CreateInsert, TypeOK, Request
  <2>3. outbox' \in [IncidentIDs -> Seq(Event)]
    <3>1. [type |-> "incident.created", status |-> "OPEN", version |-> 1] \in Event
      BY DEF Event, StatusEvent, Status
    <3> QED
      BY <1>1, <3>1 DEF CreateInsert, Emit, TypeOK, Request
  <2>4. lastReply' \in Reply
    BY <1>1 DEF CreateInsert, Reply, Outcome
  <2> QED
    BY <1>1, <2>2, <2>3, <2>4 DEF CreateInsert, TypeOK
<1>2. CASE CreateReplay(c, request)
  <2>1. lastReply' \in Reply
    BY <1>2 DEF CreateReplay, Reply, Outcome
  <2> QED
    BY <1>2, <2>1 DEF CreateReplay, TypeOK, tables
<1>3. CASE CreateDuplicateID(c, request)
  <2>1. lastReply' \in Reply
    BY <1>3 DEF CreateDuplicateID, Reply, Outcome
  <2> QED
    BY <1>3, <2>1 DEF CreateDuplicateID, TypeOK, tables
<1> QED
  BY <1>1, <1>2, <1>3 DEF Create

\* The replies of Transition and Assign have their type.
LEMMA ReplyToType ==
    ASSUME NEW op \in {"transition", "assign"}, NEW i \in IncidentIDs,
           NEW expected \in Nat \ {0}, NEW known \in BOOLEAN,
           NEW version \in Nat, NEW outcome \in Outcome,
           ReplyTo(op, i, expected, known, version, outcome)
    PROVE  lastReply' \in Reply
BY DEF ReplyTo, Reply

\* Versions a caller may quote are positive integers.
LEMMA QuotableType ==
    ASSUME TypeOK, NEW i \in IncidentIDs, NEW v \in Quotable(i)
    PROVE  v \in Nat \ {0}
<1>1. VersionOf(i) \in Nat
  BY DEF TypeOK, VersionOf, Row
<1> QED
  BY <1>1, BoundAssumption DEF Quotable

\* A call in progress is a transition or an assignment, as its op says.
LEMMA CallType ==
    ASSUME TypeOK, NEW c \in Clients, call[c] # None
    PROVE  /\ call[c].op = "transition" => call[c] \in TransitionCall
           /\ call[c].op = "assign" => call[c] \in AssignCall
           /\ call[c].id \in IncidentIDs
           /\ call[c].expected \in Nat \ {0}
<1>1. call[c] \in TransitionCall \/ call[c] \in AssignCall
  BY DEF TypeOK
<1> QED
  BY <1>1 DEF TransitionCall, AssignCall

\* The first step of Transition keeps the types.
LEMMA TransitionReadTypeOK ==
    ASSUME TypeOK, NEW c \in Clients, NEW i \in IncidentIDs, NEW next \in NamedStatus,
           NEW v \in Quotable(i), TransitionRead(c, i, v, next)
    PROVE  TypeOK'
<1>1. v \in Nat \ {0}
  BY QuotableType
<1>2. CASE call' = call
  <2>1. lastReply' \in Reply \cup {None}
    <3>1. CASE ReplyTo("transition", i, v, TRUE, 0, "not_found")
      BY <1>1, <3>1 DEF ReplyTo, Reply, Outcome
    <3>2. CASE ReplyTo("transition", i, v, TRUE, 0, "optimistic_conflict")
      BY <1>1, <3>2 DEF ReplyTo, Reply, Outcome
    <3>3. CASE ReplyTo("transition", i, v, TRUE, 0, "invalid_transition")
      BY <1>1, <3>3 DEF ReplyTo, Reply, Outcome
    <3> QED
      BY <3>1, <3>2, <3>3 DEF TransitionRead
  <2> QED
    BY <1>2, <2>1 DEF TransitionRead, TypeOK, tables
<1>3. CASE call' # call
  <2>1. /\ incidents[i] # None
        /\ call' = [call EXCEPT ![c] =
               [op |-> "transition", id |-> i, status |-> incidents[i].status,
                expected |-> v, next |-> next]]
        /\ lastReply' = None
    BY <1>3 DEF TransitionRead
  <2>2. incidents[i].status \in Status
    BY <2>1 DEF TypeOK, Row
  <2>3. [op |-> "transition", id |-> i, status |-> incidents[i].status,
         expected |-> v, next |-> next] \in TransitionCall
    BY <1>1, <2>2 DEF TransitionCall
  <2> QED
    BY <2>1, <2>3 DEF TransitionRead, TypeOK, tables
<1> QED
  BY <1>2, <1>3

\* The second step of Transition keeps the types, however it ends.
LEMMA TransitionEndTypeOK ==
    ASSUME TypeOK, NEW c \in Clients,
           TransitionUpdate(c) \/ TransitionLost(c) \/ TransitionAborted(c)
    PROVE  TypeOK'
<1>1. /\ call[c] \in TransitionCall
      /\ call[c].id \in IncidentIDs /\ call[c].expected \in Nat \ {0}
      /\ call[c].next \in Status
  BY CallType
  DEF TransitionUpdate, TransitionLost, TransitionAborted, TransitionCall, NamedStatus
<1>2. call' \in [Clients -> TransitionCall \cup AssignCall \cup {None}]
  BY DEF TransitionUpdate, TransitionLost, TransitionAborted, TypeOK
<1>3. CASE TransitionUpdate(c)
  <2> DEFINE k == call[c]
  <2>1. incidents[k.id] \in Row
    BY <1>1, <1>3 DEF TransitionUpdate, UpdateMatches, TypeOK
  <2>2. incidents[k.id].version + 1 \in Nat \ {0}
    BY <2>1 DEF Row
  <2>3. [incidents[k.id] EXCEPT !.status = k.next, !.version = @ + 1] \in Row
    BY <1>1, <2>1, <2>2 DEF Row
  <2>4. incidents' \in [IncidentIDs -> Row \cup {None}]
    <3>1. incidents' = [incidents EXCEPT ![k.id] =
                           [incidents[k.id] EXCEPT !.status = k.next, !.version = @ + 1]]
      BY <1>1, <1>3, <2>1 DEF TransitionUpdate, TypeOK, Row
    <3> QED
      BY <1>1, <2>3, <3>1 DEF TypeOK
  <2>5. outbox' \in [IncidentIDs -> Seq(Event)]
    <3>1. [type |-> "incident.status_changed", status |-> k.next,
           version |-> incidents[k.id].version + 1] \in Event
      BY <1>1, <2>2 DEF Event, StatusEvent
    <3> QED
      BY <1>1, <1>3, <3>1 DEF TransitionUpdate, Emit, TypeOK
  <2>6. lastReply' \in Reply
    BY <1>1, <1>3, <2>2 DEF TransitionUpdate, ReplyTo, Reply, Outcome
  <2> QED
    BY <1>2, <1>3, <2>4, <2>5, <2>6 DEF TransitionUpdate, TypeOK
<1>4. CASE TransitionLost(c)
  <2>1. lastReply' \in Reply
    BY <1>1, <1>4 DEF TransitionLost, ReplyTo, Reply, Outcome
  <2> QED
    BY <1>2, <1>4, <2>1 DEF TransitionLost, TypeOK, tables
<1>5. CASE TransitionAborted(c)
  <2>1. lastReply' \in Reply
    BY <1>1, <1>5 DEF TransitionAborted, ReplyTo, Reply, Outcome
  <2> QED
    BY <1>2, <1>5, <2>1 DEF TransitionAborted, TypeOK, tables
<1> QED
  BY <1>3, <1>4, <1>5

\* Correlate keeps the types.
LEMMA CorrelateTypeOK ==
    ASSUME TypeOK, NEW c \in Clients, NEW i \in IncidentIDs, NEW g \in Geofences,
           NEW evidence \in Evidences, Correlate(c, i, g, evidence)
    PROVE  TypeOK'
<1>1. lastReply' \in Reply
  <2>1. \E outcome \in Outcome :
           lastReply' = [op |-> "correlate", id |-> i, outcome |-> outcome]
    BY DEF Correlate, Outcome
  <2> QED
    BY <2>1 DEF Reply
<1>2. CASE UNCHANGED <<correlations, outbox>>
  BY <1>1, <1>2 DEF Correlate, TypeOK
<1>3. CASE /\ correlations' = [correlations EXCEPT ![i][g] = evidence]
           /\ Emit(i, [type |-> "incident.spatial_correlated",
                       geofence |-> g, evidence |-> evidence])
  <2>1. correlations' \in [IncidentIDs -> [Geofences -> Evidences \cup {None}]]
    BY <1>3 DEF TypeOK
  <2>2. outbox' \in [IncidentIDs -> Seq(Event)]
    <3>1. [type |-> "incident.spatial_correlated", geofence |-> g,
           evidence |-> evidence] \in Event
      BY DEF Event, CorrelatedEvent
    <3> QED
      BY <1>3, <3>1 DEF Emit, TypeOK
  <2> QED
    BY <1>1, <2>1, <2>2 DEF Correlate, TypeOK
<1> QED
  BY <1>2, <1>3 DEF Correlate

\* A successful Assign keeps the types.
LEMMA AssignUpdateTypeOK ==
    ASSUME TypeOK, NEW c \in Clients, NEW i \in IncidentIDs,
           NEW analyst \in Principals, NEW by \in Principals,
           NEW v \in Quotable(i), AssignUpdate(c, i, v, analyst, by)
    PROVE  TypeOK'
<1> DEFINE version == incidents[i].version + 1
<1>1. v \in Nat \ {0}
  BY QuotableType
<1>2. incidents[i] \in Row /\ version \in Nat \ {0}
  BY DEF AssignUpdate, Assignable, TypeOK, Row
<1>3. incidents' \in [IncidentIDs -> Row \cup {None}]
  <2>1. [incidents[i] EXCEPT !.version = version] \in Row
    BY <1>2 DEF Row
  <2>2. incidents' = [incidents EXCEPT ![i] = [incidents[i] EXCEPT !.version = version]]
    BY DEF AssignUpdate
  <2> QED
    BY <2>1, <2>2 DEF TypeOK
<1>4. assignments' \in [IncidentIDs -> Assignment \cup {None}]
  <2>1. [analyst |-> analyst, by |-> by, version |-> version] \in Assignment
    BY <1>2 DEF Assignment
  <2> QED
    BY <2>1 DEF AssignUpdate, PutAssignment, TypeOK
<1>5. outbox' \in [IncidentIDs -> Seq(Event)]
  <2>1. [type |-> "incident.assigned", analyst |-> analyst, by |-> by,
         version |-> version] \in Event
    BY <1>2 DEF Event, AssignedEvent
  <2> QED
    BY <2>1 DEF AssignUpdate, Emit, TypeOK
<1>6. lastReply' \in Reply
  BY <1>1, <1>2 DEF AssignUpdate, ReplyTo, Reply, Outcome
<1> QED
  BY <1>3, <1>4, <1>5, <1>6 DEF AssignUpdate, TypeOK

\* An Assign whose update matched no row keeps the types.
LEMMA AssignMissTypeOK ==
    ASSUME TypeOK, NEW c \in Clients, NEW i \in IncidentIDs,
           NEW v \in Quotable(i), AssignMiss(c, i, v)
    PROVE  TypeOK'
<1>1. v \in Nat \ {0}
  BY QuotableType
<1>2. [op |-> "assign", id |-> i, expected |-> v, known |-> v <= VersionOf(i)] \in AssignCall
  BY <1>1 DEF AssignCall
<1> QED
  BY <1>2 DEF AssignMiss, TypeOK, tables

\* The look-up of a refused Assign keeps the types.
LEMMA AssignEndTypeOK ==
    ASSUME TypeOK, NEW c \in Clients, AssignDiagnose(c) \/ AssignDiagnoseFails(c)
    PROVE  TypeOK'
<1>1. /\ call[c] \in AssignCall
      /\ call[c].id \in IncidentIDs /\ call[c].expected \in Nat \ {0}
      /\ call[c].known \in BOOLEAN
  BY CallType DEF AssignDiagnose, AssignDiagnoseFails, AssignCall
<1>2. call' \in [Clients -> TransitionCall \cup AssignCall \cup {None}]
  BY DEF AssignDiagnose, AssignDiagnoseFails, TypeOK
<1>3. \E outcome \in Outcome :
          ReplyTo("assign", call[c].id, call[c].expected, call[c].known, 0, outcome)
  BY DEF AssignDiagnose, AssignDiagnoseFails, Outcome
<1>4. lastReply' \in Reply
  BY <1>1, <1>3 DEF ReplyTo, Reply
<1> QED
  BY <1>2, <1>4 DEF AssignDiagnose, AssignDiagnoseFails, TypeOK, tables

\* Every step keeps the types.
LEMMA NextTypeOK == TypeOK /\ [Next]_vars => TypeOK'
<1> SUFFICES ASSUME TypeOK, [Next]_vars PROVE TypeOK'
  OBVIOUS
<1>1. CASE UNCHANGED vars
  BY <1>1 DEF vars, TypeOK
<1>2. ASSUME NEW c \in Clients, NEW request \in Request, Create(c, request)
      PROVE  TypeOK'
  BY <1>2, CreateTypeOK
<1>3. ASSUME NEW c \in Clients, Transition(c) PROVE TypeOK'
  BY <1>3, TransitionReadTypeOK, TransitionEndTypeOK DEF Transition
<1>4. ASSUME NEW c \in Clients, NEW i \in IncidentIDs, NEW g \in Geofences,
             NEW e \in Evidences, Correlate(c, i, g, e)
      PROVE  TypeOK'
  BY <1>4, CorrelateTypeOK
<1>5. ASSUME NEW c \in Clients, Assign(c) PROVE TypeOK'
  BY <1>5, AssignUpdateTypeOK, AssignMissTypeOK, AssignEndTypeOK DEF Assign
<1> QED
  BY <1>1, <1>2, <1>3, <1>4, <1>5 DEF Next

\* The tables, the calls in progress and the replies of the incident store keep
\* their types: in particular every version is positive, which the table's
\* CHECK (version > 0) demands.
THEOREM TypeCorrect == Spec => []TypeOK
<1>1. Init => TypeOK
  BY InitTypeOK
<1>2. TypeOK /\ [Next]_vars => TypeOK'
  BY NextTypeOK
<1> QED
  BY <1>1, <1>2, PTL DEF Spec

-----------------------------------------------------------------------------
(* Rows between two steps                                                  *)

\* Of a row that exists, a step changes the version and possibly the status.
RowMoves(i) ==
    \/ incidents'[i] = incidents[i]
    \/ incidents[i] = None
    \/ /\ incidents'[i] # None
       /\ incidents'[i].version = incidents[i].version + 1

\* A row is never deleted, and it changes only together with its version.
LEMMA RowsMove ==
    ASSUME TypeOK, Next
    PROVE  \A i \in IncidentIDs : RowMoves(i)
<1>1. ASSUME NEW c \in Clients, NEW request \in Request, Create(c, request)
      PROVE  \A i \in IncidentIDs : RowMoves(i)
  BY <1>1 DEF Create, CreateInsert, CreateReplay, CreateDuplicateID, RowMoves, tables, TypeOK
<1>2. ASSUME NEW c \in Clients, TransitionUpdate(c)
      PROVE  \A i \in IncidentIDs : RowMoves(i)
  <2> DEFINE k == call[c]
  <2>1. k.id \in IncidentIDs
    BY <1>2, CallType DEF TransitionUpdate
  <2>2. incidents[k.id] \in Row
    BY <1>2, <2>1 DEF TransitionUpdate, UpdateMatches, TypeOK
  <2>3. incidents' = [incidents EXCEPT ![k.id] =
                         [incidents[k.id] EXCEPT !.status = k.next, !.version = @ + 1]]
    BY <1>2, <2>1, <2>2 DEF TransitionUpdate, TypeOK, Row
  <2>4. [incidents[k.id] EXCEPT !.status = k.next, !.version = @ + 1] \in Row
    <3>1. k.next \in Status
      <4>1. call[c] \in TransitionCall
        BY <1>2, CallType DEF TransitionUpdate
      <4> QED
        BY <4>1 DEF TransitionCall, NamedStatus
    <3>2. incidents[k.id].version + 1 \in Nat \ {0}
      BY <2>2 DEF Row
    <3> QED
      BY <2>2, <3>1, <3>2 DEF Row
  <2> QED
    BY <2>1, <2>2, <2>3, <2>4, NoneAssumption DEF RowMoves, TypeOK, Row
<1>3. ASSUME NEW c \in Clients, NEW i \in IncidentIDs, NEW analyst \in Principals,
             NEW by \in Principals, NEW v \in Quotable(i), AssignUpdate(c, i, v, analyst, by)
      PROVE  \A j \in IncidentIDs : RowMoves(j)
  <2>1. incidents[i] \in Row
    BY <1>3 DEF AssignUpdate, Assignable, TypeOK
  <2>2. incidents' = [incidents EXCEPT ![i] =
                         [incidents[i] EXCEPT !.version = incidents[i].version + 1]]
    BY <1>3 DEF AssignUpdate
  <2>3. [incidents[i] EXCEPT !.version = incidents[i].version + 1] \in Row
    BY <2>1 DEF Row
  <2> QED
    BY <2>1, <2>2, <2>3, NoneAssumption DEF RowMoves, TypeOK, Row
<1>4. CASE incidents' = incidents
  BY <1>4 DEF RowMoves
<1>5. ASSUME NEW c \in Clients, Transition(c)
      PROVE  TransitionUpdate(c) \/ incidents' = incidents
  BY <1>5 DEF Transition, TransitionRead, TransitionLost, TransitionAborted, tables
<1>6. ASSUME NEW c \in Clients, Assign(c)
      PROVE  \/ \E i \in IncidentIDs, analyst, by \in Principals :
                   \E v \in Quotable(i) : AssignUpdate(c, i, v, analyst, by)
             \/ incidents' = incidents
  BY <1>6 DEF Assign, AssignMiss, AssignDiagnose, AssignDiagnoseFails, tables
<1>7. ASSUME NEW c \in Clients, NEW i \in IncidentIDs, NEW g \in Geofences, NEW e \in Evidences,
             Correlate(c, i, g, e)
      PROVE  incidents' = incidents
  BY <1>7 DEF Correlate, tables
<1> QED
  BY <1>1, <1>2, <1>3, <1>4, <1>5, <1>6, <1>7 DEF Next

-----------------------------------------------------------------------------
(* Snapshots                                                               *)

\* What SnapshotInv says about one call and the row it refers to.
TransitionFits(k, row) ==
    /\ row # None
    /\ k.expected <= row.version
    /\ ValidTransition(k.status, k.next)
    /\ row.version = k.expected => row.status = k.status
AssignFits(k, row) ==
    /\ row # None
    /\ k.expected <= row.version
    /\ row.version = k.expected => row.status = "CLOSED"

\* SnapshotInv in terms of these.
LEMMA SnapshotParts ==
    SnapshotInv <=>
        \A c \in Clients :
            /\ (call[c] # None /\ call[c].op = "transition")
                  => TransitionFits(call[c], incidents[call[c].id])
            /\ (call[c] # None /\ call[c].op = "assign" /\ call[c].known)
                  => AssignFits(call[c], incidents[call[c].id])
BY DEF SnapshotInv, TransitionFits, AssignFits

\* A snapshot that fits a row fits what a step makes of that row: the row is
\* the same, or its version is larger than any version read so far.
LEMMA FitsIsStable ==
    ASSUME TypeOK, TypeOK', NEW i \in IncidentIDs, RowMoves(i),
           NEW k, k.expected \in Nat
    PROVE  /\ TransitionFits(k, incidents[i]) => TransitionFits(k, incidents'[i])
           /\ AssignFits(k, incidents[i]) => AssignFits(k, incidents'[i])
<1>1. CASE incidents'[i] = incidents[i]
  BY <1>1
<1>2. CASE incidents[i] = None
  BY <1>2 DEF TransitionFits, AssignFits
<1>3. CASE /\ incidents[i] # None /\ incidents'[i] # None
           /\ incidents'[i].version = incidents[i].version + 1
  <2>1. incidents[i].version \in Nat /\ incidents'[i].version \in Nat
    BY <1>3 DEF TypeOK, Row
  <2> QED
    BY <1>3, <2>1 DEF TransitionFits, AssignFits
<1> QED
  BY <1>1, <1>2, <1>3 DEF RowMoves

\* The only steps that begin a call: a read that passed both checks, and an
\* assignment that matched no row.
LEMMA CallsBegin ==
    ASSUME TypeOK, Next, NEW c \in Clients, call'[c] # call[c]
    PROVE  \/ call'[c] = None
           \/ \E i \in IncidentIDs, next \in NamedStatus : \E v \in Quotable(i) :
                 /\ incidents' = incidents
                 /\ incidents[i] # None /\ incidents[i].version = v
                 /\ ValidTransition(incidents[i].status, next)
                 /\ call'[c] = [op |-> "transition", id |-> i, status |-> incidents[i].status,
                                expected |-> v, next |-> next]
           \/ \E i \in IncidentIDs : \E v \in Quotable(i) :
                 /\ incidents' = incidents
                 /\ ~Assignable(i, v)
                 /\ call'[c] = [op |-> "assign", id |-> i, expected |-> v,
                                known |-> v <= VersionOf(i)]
<1>1. ASSUME NEW d \in Clients, NEW i \in IncidentIDs, NEW next \in NamedStatus,
             NEW v \in Quotable(i), TransitionRead(d, i, v, next), call' # call
      PROVE  /\ incidents' = incidents
             /\ incidents[i] # None /\ incidents[i].version = v
             /\ ValidTransition(incidents[i].status, next)
             /\ call' = [call EXCEPT ![d] =
                    [op |-> "transition", id |-> i, status |-> incidents[i].status,
                     expected |-> v, next |-> next]]
  BY <1>1 DEF TransitionRead, tables
<1>2. ASSUME NEW d \in Clients, Transition(d)
      PROVE  \/ call'[c] = None
             \/ \E i \in IncidentIDs, next \in NamedStatus : \E v \in Quotable(i) :
                   /\ incidents' = incidents
                   /\ incidents[i] # None /\ incidents[i].version = v
                   /\ ValidTransition(incidents[i].status, next)
                   /\ call'[c] = [op |-> "transition", id |-> i,
                                  status |-> incidents[i].status,
                                  expected |-> v, next |-> next]
  <2>1. CASE TransitionUpdate(d) \/ TransitionLost(d) \/ TransitionAborted(d)
    BY <2>1 DEF TransitionUpdate, TransitionLost, TransitionAborted, TypeOK
  <2>2. ASSUME NEW i \in IncidentIDs, NEW next \in NamedStatus, NEW v \in Quotable(i),
               TransitionRead(d, i, v, next)
        PROVE  /\ incidents' = incidents
               /\ incidents[i] # None /\ incidents[i].version = v
               /\ ValidTransition(incidents[i].status, next)
               /\ call'[c] = [op |-> "transition", id |-> i, status |-> incidents[i].status,
                              expected |-> v, next |-> next]
    BY <1>1, <2>2 DEF TypeOK
  <2>3. CASE \E i \in IncidentIDs, next \in NamedStatus : \E v \in Quotable(i) :
                TransitionRead(d, i, v, next)
    <3>1. PICK i \in IncidentIDs, next \in NamedStatus : \E v \in Quotable(i) :
                 TransitionRead(d, i, v, next)
      BY <2>3
    <3>2. PICK v \in Quotable(i) : TransitionRead(d, i, v, next)
      BY <3>1
    <3> QED
      BY <2>2, <3>2
  <2> QED
    BY <1>2, <2>1, <2>3 DEF Transition
<1>3. ASSUME NEW d \in Clients, Assign(d)
      PROVE  \/ call'[c] = None
             \/ \E i \in IncidentIDs : \E v \in Quotable(i) :
                   /\ incidents' = incidents
                   /\ ~Assignable(i, v)
                   /\ call'[c] = [op |-> "assign", id |-> i, expected |-> v,
                                  known |-> v <= VersionOf(i)]
  <2>1. CASE AssignDiagnose(d) \/ AssignDiagnoseFails(d)
    BY <2>1 DEF AssignDiagnose, AssignDiagnoseFails, TypeOK
  <2>2. ASSUME NEW i \in IncidentIDs, NEW v \in Quotable(i), AssignMiss(d, i, v)
        PROVE  /\ incidents' = incidents
               /\ ~Assignable(i, v)
               /\ call'[c] = [op |-> "assign", id |-> i, expected |-> v,
                              known |-> v <= VersionOf(i)]
    BY <2>2 DEF AssignMiss, TypeOK, tables
  <2> QED
    BY <1>3, <2>1, <2>2 DEF Assign, AssignUpdate
<1> QED
  BY <1>2, <1>3 DEF Next, Create, CreateInsert, CreateReplay, CreateDuplicateID, Correlate

\* Every step keeps SnapshotInv.
LEMMA NextSnapshot == TypeOK /\ SnapshotInv /\ [Next]_vars => SnapshotInv'
<1> SUFFICES ASSUME TypeOK, SnapshotInv, [Next]_vars PROVE SnapshotInv'
  OBVIOUS
<1>1. TypeOK'
  BY NextTypeOK
<1>2. CASE UNCHANGED vars
  BY <1>2 DEF vars, SnapshotInv
<1>3. CASE Next
  <2>1. ASSUME NEW c \in Clients, call'[c] # None
        PROVE  /\ call'[c].op = "transition" => TransitionFits(call'[c], incidents'[call'[c].id])
               /\ (call'[c].op = "assign" /\ call'[c].known)
                     => AssignFits(call'[c], incidents'[call'[c].id])
    <3>1. CASE call'[c] = call[c]
      <4>1. call[c].id \in IncidentIDs /\ call[c].expected \in Nat
        BY <2>1, <3>1, CallType
      <4>2. RowMoves(call[c].id)
        BY <1>3, <4>1, RowsMove
      <4>3. /\ TransitionFits(call[c], incidents[call[c].id])
                  => TransitionFits(call[c], incidents'[call[c].id])
            /\ AssignFits(call[c], incidents[call[c].id])
                  => AssignFits(call[c], incidents'[call[c].id])
        BY <1>1, <4>1, <4>2, FitsIsStable
      <4> QED
        BY <2>1, <3>1, <4>3, SnapshotParts
    <3>2. CASE \E i \in IncidentIDs, next \in NamedStatus : \E v \in Quotable(i) :
                  /\ incidents' = incidents
                  /\ incidents[i] # None /\ incidents[i].version = v
                  /\ ValidTransition(incidents[i].status, next)
                  /\ call'[c] = [op |-> "transition", id |-> i, status |-> incidents[i].status,
                                 expected |-> v, next |-> next]
      <4>1. PICK i \in IncidentIDs, next \in NamedStatus : \E v \in Quotable(i) :
                  /\ incidents' = incidents
                  /\ incidents[i] # None /\ incidents[i].version = v
                  /\ ValidTransition(incidents[i].status, next)
                  /\ call'[c] = [op |-> "transition", id |-> i, status |-> incidents[i].status,
                                 expected |-> v, next |-> next]
        BY <3>2
      <4>2. incidents[i].version \in Nat
        BY <4>1 DEF TypeOK, Row
      <4> QED
        BY <4>1, <4>2 DEF TransitionFits
    <3>3. CASE \E i \in IncidentIDs : \E v \in Quotable(i) :
                  /\ incidents' = incidents
                  /\ ~Assignable(i, v)
                  /\ call'[c] = [op |-> "assign", id |-> i, expected |-> v,
                                 known |-> v <= VersionOf(i)]
      <4>1. PICK i \in IncidentIDs, v \in Nat \ {0} :
                  /\ incidents' = incidents
                  /\ ~Assignable(i, v)
                  /\ call'[c] = [op |-> "assign", id |-> i, expected |-> v,
                                 known |-> v <= VersionOf(i)]
        BY <3>3, QuotableType
      <4>2. call'[c].id = i /\ call'[c].expected = v /\ call'[c].op = "assign"
        BY <4>1
      <4>3. call'[c].known = (v <= VersionOf(i))
        BY <4>1
      <4>4. call'[c].known => v <= VersionOf(i)
        BY <4>3, Zenon
      <4>5. ASSUME v <= VersionOf(i) PROVE AssignFits(call'[c], incidents'[i])
        <5>1. incidents[i] # None
          BY <4>5 DEF VersionOf
        <5>2. incidents[i].version \in Nat
          BY <5>1 DEF TypeOK, Row
        <5> QED
          BY <4>1, <4>2, <4>5, <5>1, <5>2 DEF VersionOf, Assignable, AssignFits
      <4> QED
        BY <4>2, <4>4, <4>5
    <3> QED
      BY <1>3, <2>1, <3>1, <3>2, <3>3, CallsBegin
  <2> QED
    BY <2>1 DEF SnapshotInv, TransitionFits, AssignFits
<1> QED
  BY <1>2, <1>3

\* The inductive invariant of the incident store.
IInv == TypeOK /\ SnapshotInv

\* In every reachable state the snapshots of all calls in progress are true or
\* detectably stale.
THEOREM Inductive == Spec => []IInv
<1>1. Init => IInv
  BY InitTypeOK DEF IInv, Init, SnapshotInv
<1>2. IInv /\ [Next]_vars => IInv'
  BY NextTypeOK, NextSnapshot DEF IInv
<1> QED
  BY <1>1, <1>2, PTL DEF Spec

-----------------------------------------------------------------------------
(* Replies                                                                 *)

\* The steps that answer a call of Transition or Assign, and what they answer.
LEMMA Answers ==
    ASSUME TypeOK, Next, lastReply' # None, lastReply'.op \in {"transition", "assign"}
    PROVE  \/ lastReply'.op = "transition"
              /\ \E i \in IncidentIDs : \E v \in Quotable(i) :
                     /\ incidents' = incidents
                     /\ lastReply'.id = i /\ lastReply'.expected = v
                     /\ lastReply'.outcome # "ok"
                     /\ lastReply'.outcome = "optimistic_conflict" => VersionOf(i) # v
           \/ \E c \in Clients : \/ TransitionUpdate(c) \/ TransitionLost(c)
                                 \/ TransitionAborted(c)
                                 \/ AssignDiagnose(c) \/ AssignDiagnoseFails(c)
           \/ \E c \in Clients, i \in IncidentIDs, analyst, by \in Principals :
                 \E v \in Quotable(i) : AssignUpdate(c, i, v, analyst, by)
<1>1. ASSUME NEW c \in Clients, NEW i \in IncidentIDs, NEW next \in NamedStatus,
             NEW v \in Quotable(i), TransitionRead(c, i, v, next)
      PROVE  /\ lastReply'.op = "transition"
             /\ incidents' = incidents
             /\ lastReply'.id = i /\ lastReply'.expected = v
             /\ lastReply'.outcome # "ok"
             /\ lastReply'.outcome = "optimistic_conflict" => VersionOf(i) # v
  BY <1>1 DEF TransitionRead, ReplyTo, VersionOf, tables
<1>2. ASSUME NEW c \in Clients, NEW request \in Request PROVE ~Create(c, request)
  BY DEF Create, CreateInsert, CreateReplay, CreateDuplicateID
<1>3. ASSUME NEW c \in Clients, NEW i \in IncidentIDs, NEW g \in Geofences, NEW e \in Evidences
      PROVE  ~Correlate(c, i, g, e)
  BY DEF Correlate
<1>4. ASSUME NEW c \in Clients, NEW i \in IncidentIDs, NEW v \in Quotable(i)
      PROVE  ~AssignMiss(c, i, v)
  BY DEF AssignMiss
<1> QED
  BY <1>1, <1>2, <1>3, <1>4 DEF Next, Transition, Assign

\* Only a successful update is confirmed, and it is confirmed truthfully.
LEMMA NextConfirmed ==
    ASSUME IInv, Next PROVE ConfirmedAtExpectedVersion'
<1> USE DEF IInv
<1> SUFFICES ASSUME lastReply' # None, lastReply'.op \in {"transition", "assign"},
                    lastReply'.outcome = "ok"
             PROVE  /\ lastReply'.version = lastReply'.expected + 1
                    /\ VersionOf(lastReply.id)' = lastReply'.version
  BY DEF ConfirmedAtExpectedVersion
<1>1. ASSUME NEW c \in Clients, TransitionUpdate(c)
      PROVE  /\ lastReply'.version = lastReply'.expected + 1
             /\ VersionOf(lastReply.id)' = lastReply'.version
  <2> DEFINE k == call[c]
  <2>1. k.id \in IncidentIDs /\ k.expected \in Nat
    BY <1>1, CallType DEF TransitionUpdate
  <2>2. incidents[k.id] \in Row /\ incidents[k.id].version = k.expected
    BY <1>1, <2>1 DEF TransitionUpdate, UpdateMatches, TypeOK
  <2>3. /\ lastReply'.id = k.id /\ lastReply'.expected = k.expected
        /\ lastReply'.version = k.expected + 1
    BY <1>1, <2>2 DEF TransitionUpdate, ReplyTo
  <2>4. incidents'[k.id] # None /\ incidents'[k.id].version = k.expected + 1
    <3>1. incidents'[k.id].version # incidents[k.id].version
      BY <1>1, <2>1, <2>2 DEF TransitionUpdate, TypeOK, Row
    <3>2. RowMoves(k.id)
      BY <2>1, RowsMove
    <3> QED
      BY <2>2, <3>1, <3>2, NoneAssumption DEF RowMoves
  <2> QED
    BY <2>3, <2>4 DEF VersionOf
<1>2. ASSUME NEW c \in Clients, NEW i \in IncidentIDs, NEW analyst \in Principals,
             NEW by \in Principals, NEW v \in Quotable(i), AssignUpdate(c, i, v, analyst, by)
      PROVE  /\ lastReply'.version = lastReply'.expected + 1
             /\ VersionOf(lastReply.id)' = lastReply'.version
  <2>1. incidents[i] \in Row /\ incidents[i].version = v
    BY <1>2 DEF AssignUpdate, Assignable, TypeOK
  <2>2. lastReply'.id = i /\ lastReply'.expected = v /\ lastReply'.version = v + 1
    BY <1>2, <2>1 DEF AssignUpdate, ReplyTo
  <2>3. incidents'[i] # None /\ incidents'[i].version = v + 1
    <3>1. incidents'[i].version # incidents[i].version
      BY <1>2, <2>1 DEF AssignUpdate, TypeOK, Row
    <3>2. RowMoves(i)
      BY RowsMove
    <3> QED
      BY <2>1, <3>1, <3>2, NoneAssumption DEF RowMoves
  <2> QED
    BY <2>2, <2>3 DEF VersionOf
<1>3. ASSUME NEW c \in Clients, TransitionLost(c) \/ TransitionAborted(c)
      PROVE  FALSE
  BY <1>3 DEF TransitionLost, TransitionAborted, ReplyTo
<1>4. ASSUME NEW c \in Clients, AssignDiagnose(c) \/ AssignDiagnoseFails(c)
      PROVE  FALSE
  BY <1>4 DEF AssignDiagnose, AssignDiagnoseFails, ReplyTo
<1> QED
  BY <1>1, <1>2, <1>3, <1>4, Answers

\* A conflict that Transition reports comes from a version that has moved on.
LEMMA NextConflict ==
    ASSUME IInv, Next PROVE TransitionConflictIsReal'
<1> USE DEF IInv
<1> SUFFICES ASSUME lastReply' # None, lastReply'.op = "transition",
                    lastReply'.outcome = "optimistic_conflict"
             PROVE  VersionOf(lastReply.id)' # lastReply'.expected
  BY DEF TransitionConflictIsReal
<1>1. ASSUME NEW c \in Clients, TransitionLost(c)
      PROVE  VersionOf(lastReply.id)' # lastReply'.expected
  <2> DEFINE k == call[c]
  <2>1. /\ lastReply'.id = k.id /\ lastReply'.expected = k.expected
        /\ incidents' = incidents /\ ~UpdateMatches(k)
        /\ k # None /\ k.op = "transition"
    BY <1>1 DEF TransitionLost, ReplyTo, tables
  <2>2. /\ incidents[k.id] # None
        /\ incidents[k.id].version = k.expected => incidents[k.id].status = k.status
    BY <2>1 DEF SnapshotInv
  <2> QED
    BY <2>1, <2>2 DEF UpdateMatches, VersionOf
<1>2. ASSUME NEW c \in Clients,
             \/ TransitionUpdate(c) \/ TransitionAborted(c)
             \/ AssignDiagnose(c) \/ AssignDiagnoseFails(c)
      PROVE  FALSE
  BY <1>2 DEF TransitionUpdate, TransitionAborted, AssignDiagnose, AssignDiagnoseFails, ReplyTo
<1>3. ASSUME NEW c \in Clients, NEW i \in IncidentIDs, NEW analyst \in Principals,
             NEW by \in Principals, NEW v \in Quotable(i), AssignUpdate(c, i, v, analyst, by)
      PROVE  FALSE
  BY <1>3 DEF AssignUpdate, ReplyTo
<1>4. ASSUME NEW i \in IncidentIDs, NEW v \in Quotable(i), incidents' = incidents,
             lastReply'.id = i, lastReply'.expected = v, VersionOf(i) # v
      PROVE  VersionOf(lastReply.id)' # lastReply'.expected
  BY <1>4 DEF VersionOf
<1> QED
  BY <1>1, <1>2, <1>3, <1>4, Answers

\* Assign reports an invalid transition only when its look-up finds the row at
\* the quoted version, and then the snapshot says that it is closed.
LEMMA NextRefusal ==
    ASSUME IInv, Next PROVE AssignRefusalIsTruthful'
<1> USE DEF IInv
<1> SUFFICES ASSUME lastReply' # None, lastReply'.op = "assign",
                    lastReply'.outcome = "invalid_transition", lastReply'.known
             PROVE  incidents'[lastReply'.id].status = "CLOSED"
  BY DEF AssignRefusalIsTruthful
<1>1. ASSUME NEW c \in Clients, AssignDiagnose(c)
      PROVE  incidents'[lastReply'.id].status = "CLOSED"
  <2> DEFINE k == call[c]
  <2>1. /\ k # None /\ k.op = "assign" /\ incidents' = incidents
        /\ lastReply'.id = k.id /\ lastReply'.known = k.known
        /\ incidents[k.id] # None /\ incidents[k.id].version = k.expected
    BY <1>1 DEF AssignDiagnose, ReplyTo, tables
  <2>2. k.known
    BY <2>1, Zenon
  <2> QED
    BY <2>1, <2>2 DEF SnapshotInv
<1>2. ASSUME NEW c \in Clients,
             \/ TransitionUpdate(c) \/ TransitionLost(c) \/ TransitionAborted(c)
             \/ AssignDiagnoseFails(c)
      PROVE  FALSE
  BY <1>2 DEF TransitionUpdate, TransitionLost, TransitionAborted, AssignDiagnoseFails, ReplyTo
<1>3. ASSUME NEW c \in Clients, NEW i \in IncidentIDs, NEW analyst \in Principals,
             NEW by \in Principals, NEW v \in Quotable(i), AssignUpdate(c, i, v, analyst, by)
      PROVE  FALSE
  BY <1>3 DEF AssignUpdate, ReplyTo
<1> QED
  BY <1>1, <1>2, <1>3, Answers

\* Optimistic locking for any number of callers: what Transition and Assign
\* confirm was made at the version the caller quoted, and the row carries the
\* confirmed version.
THEOREM ConfirmedAtExpected == Spec => []ConfirmedAtExpectedVersion
<1>1. Init => ConfirmedAtExpectedVersion
  BY DEF Init, ConfirmedAtExpectedVersion
<1>2. IInv /\ ConfirmedAtExpectedVersion /\ [Next]_vars => ConfirmedAtExpectedVersion'
  <2>1. CASE UNCHANGED vars
    BY <2>1 DEF vars, ConfirmedAtExpectedVersion, VersionOf
  <2> QED
    BY <2>1, NextConfirmed
<1> QED
  BY <1>1, <1>2, Inductive, PTL DEF Spec

\* A conflict reported by Transition is real for any number of callers: the read
\* outside the transaction never makes the store refuse a caller whose version
\* is still the current one.
THEOREM ConflictIsReal == Spec => []TransitionConflictIsReal
<1>1. Init => TransitionConflictIsReal
  BY DEF Init, TransitionConflictIsReal
<1>2. IInv /\ TransitionConflictIsReal /\ [Next]_vars => TransitionConflictIsReal'
  <2>1. CASE UNCHANGED vars
    BY <2>1 DEF vars, TransitionConflictIsReal, VersionOf
  <2> QED
    BY <2>1, NextConflict
<1> QED
  BY <1>1, <1>2, Inductive, PTL DEF Spec

\* "Invalid incident transition" from Assign means a closed incident, whatever
\* happened between the failed update and the look-up that explains it.
THEOREM RefusalIsTruthful == Spec => []AssignRefusalIsTruthful
<1>1. Init => AssignRefusalIsTruthful
  BY DEF Init, AssignRefusalIsTruthful
<1>2. IInv /\ AssignRefusalIsTruthful /\ [Next]_vars => AssignRefusalIsTruthful'
  <2>1. CASE UNCHANGED vars
    BY <2>1 DEF vars, AssignRefusalIsTruthful
  <2> QED
    BY <2>1, NextRefusal
<1> QED
  BY <1>1, <1>2, Inductive, PTL DEF Spec

-----------------------------------------------------------------------------
(* The life cycle                                                          *)

\* The three ways in which a step changes rows and assignments.
Opened(request) ==
    /\ incidents[request.id] = None
    /\ RetainedFor(request.source) = {}
    /\ incidents' = [incidents EXCEPT ![request.id] = NewRow(request)]
    /\ assignments' = assignments
Advanced(i, next) ==
    /\ incidents[i] # None
    /\ ValidTransition(incidents[i].status, next)
    /\ incidents' = [incidents EXCEPT ![i] =
           [incidents[i] EXCEPT !.status = next, !.version = @ + 1]]
    /\ assignments' = assignments
HandedOver(i, analyst, by) ==
    /\ incidents[i] # None /\ incidents[i].status # "CLOSED" /\ analyst # by
    /\ incidents' = [incidents EXCEPT ![i] =
           [incidents[i] EXCEPT !.version = incidents[i].version + 1]]
    /\ assignments' = [assignments EXCEPT ![i] =
           [analyst |-> analyst, by |-> by, version |-> incidents[i].version + 1]]

\* A step changes no row and no assignment, or it is one whole operation applied
\* to the current state.
LEMMA Effects ==
    ASSUME IInv, Next
    PROVE  \/ UNCHANGED <<incidents, assignments>>
           \/ \E request \in Request : Opened(request)
           \/ \E i \in IncidentIDs, next \in NamedStatus : Advanced(i, next)
           \/ \E i \in IncidentIDs, analyst, by \in Principals : HandedOver(i, analyst, by)
<1>1. ASSUME NEW c \in Clients, NEW request \in Request, Create(c, request)
      PROVE  UNCHANGED <<incidents, assignments>> \/ Opened(request)
  BY <1>1 DEF Create, CreateInsert, CreateReplay, CreateDuplicateID, tables, Opened
<1>2. ASSUME NEW c \in Clients, TransitionUpdate(c)
      PROVE  \E i \in IncidentIDs, next \in NamedStatus : Advanced(i, next)
  <2> DEFINE k == call[c]
  <2>1. k # None /\ k.op = "transition"
    BY <1>2 DEF TransitionUpdate
  <2>2. k \in TransitionCall /\ k.id \in IncidentIDs
    BY <2>1, CallType DEF IInv
  <2>3. k.next \in NamedStatus
    BY <2>2 DEF TransitionCall
  <2>4. /\ incidents[k.id] # None /\ incidents[k.id].status = k.status
        /\ assignments' = assignments
    BY <1>2 DEF TransitionUpdate, UpdateMatches
  <2>5. ValidTransition(k.status, k.next)
    BY <2>1 DEF IInv, SnapshotInv
  <2>6. incidents[k.id] \in Row
    BY <2>2, <2>4 DEF IInv, TypeOK
  <2>7. incidents' = [incidents EXCEPT ![k.id] =
                         [incidents[k.id] EXCEPT !.status = k.next, !.version = @ + 1]]
    BY <1>2, <2>2, <2>6 DEF TransitionUpdate, IInv, TypeOK, Row
  <2>8. Advanced(k.id, k.next)
    BY <2>4, <2>5, <2>7 DEF Advanced
  <2> QED
    BY <2>2, <2>3, <2>8
<1>3. ASSUME NEW c \in Clients, NEW i \in IncidentIDs, NEW analyst \in Principals,
             NEW by \in Principals, NEW v \in Quotable(i), AssignUpdate(c, i, v, analyst, by)
      PROVE  HandedOver(i, analyst, by)
  BY <1>3 DEF AssignUpdate, Assignable, PutAssignment, HandedOver
<1>4. ASSUME NEW c \in Clients, Transition(c), ~TransitionUpdate(c)
      PROVE  UNCHANGED <<incidents, assignments>>
  BY <1>4 DEF Transition, TransitionRead, TransitionLost, TransitionAborted, tables
<1>5. ASSUME NEW c \in Clients, NEW i \in IncidentIDs, NEW g \in Geofences,
             NEW e \in Evidences, Correlate(c, i, g, e)
      PROVE  UNCHANGED <<incidents, assignments>>
  BY <1>5 DEF Correlate
<1>6. ASSUME NEW c \in Clients, Assign(c)
      PROVE  \/ UNCHANGED <<incidents, assignments>>
             \/ \E i \in IncidentIDs, analyst, by \in Principals : HandedOver(i, analyst, by)
  BY <1>3, <1>6 DEF Assign, AssignMiss, AssignDiagnose, AssignDiagnoseFails, tables
<1> QED
  BY <1>1, <1>2, <1>4, <1>5, <1>6 DEF Next

\* A closed incident never changes again, for any number of callers: a late
\* transition or assignment finds the version moved on or the row closed.
THEOREM ClosedStaysClosed == Spec => ClosedIsFinal
<1>1. ASSUME IInv, [Next]_vars, NEW i \in IncidentIDs,
             incidents[i] # None, incidents[i].status = "CLOSED"
      PROVE  incidents'[i] = incidents[i] /\ assignments'[i] = assignments[i]
  <2>1. CASE UNCHANGED vars
    BY <2>1 DEF vars
  <2>2. CASE Next
    BY <1>1, <2>2, Effects
    DEF IInv, TypeOK, ValidTransition, Request, Opened, Advanced, HandedOver
  <2> QED
    BY <1>1, <2>1, <2>2
<1>2. IInv /\ [Next]_vars =>
        [\A i \in IncidentIDs :
            (incidents[i] # None /\ incidents[i].status = "CLOSED")
                => incidents'[i] = incidents[i] /\ assignments'[i] = assignments[i]]_vars
  BY <1>1
<1> QED
  BY <1>2, Inductive, PTL DEF Spec, ClosedIsFinal

-----------------------------------------------------------------------------
(* Refinement                                                              *)

\* Only an incident that exists has an analyst.
AssignedExists == \A i \in IncidentIDs : incidents[i] = None => assignments[i] = None

\* Every step keeps this, since rows are never deleted.
LEMMA NextAssignedExists ==
    ASSUME IInv, AssignedExists, [Next]_vars PROVE AssignedExists'
<1>1. TypeOK /\ TypeOK'
  BY NextTypeOK DEF IInv
<1>2. CASE UNCHANGED vars
  BY <1>2 DEF vars, AssignedExists
<1>3. CASE Next
  <2>1. ASSUME NEW i \in IncidentIDs, incidents'[i] = None PROVE incidents[i] = None
    BY <1>1, <1>3, <2>1, RowsMove DEF RowMoves
  <2>2. ASSUME NEW i \in IncidentIDs, incidents'[i] = None PROVE assignments'[i] = None
    BY <1>1, <1>3, <2>1, <2>2, Effects
    DEF AssignedExists, Opened, Advanced, HandedOver, TypeOK
  <2> QED
    BY <2>2 DEF AssignedExists
<1> QED
  BY <1>2, <1>3

\* The case of an incident that exists.
CaseOf(i) ==
    [source |-> incidents[i].source, body |-> incidents[i].body,
     status |-> incidents[i].status, version |-> incidents[i].version,
     assignee |-> assignments[i]]

\* The refinement mapping at one identifier.
LEMMA CaseFacts ==
    ASSUME TypeOK, NEW i \in IncidentIDs
    PROVE  /\ incidents[i] = None => casesBar[i] = None
           /\ incidents[i] # None => casesBar[i] = CaseOf(i) /\ casesBar[i] # None
<1>1. ASSUME incidents[i] # None PROVE CaseOf(i) \in Case
  BY <1>1 DEF CaseOf, Case, TypeOK, Row
<1> QED
  BY <1>1, NoneAssumption DEF casesBar, CaseOf

\* Cases with equal fields are equal.
LEMMA CaseEquality ==
    ASSUME NEW x \in Case, NEW y \in Case, x.source = y.source, x.body = y.body,
           x.status = y.status, x.version = y.version, x.assignee = y.assignee
    PROVE  x = y
BY DEF Case

\* The refinement mapping follows the rows and assignments.
LEMMA CasesChange ==
    ASSUME TypeOK, TypeOK', NEW i \in IncidentIDs, NEW case,
           \A j \in IncidentIDs \ {i} :
               incidents'[j] = incidents[j] /\ assignments'[j] = assignments[j],
           casesBar'[i] = case
    PROVE  casesBar' = [casesBar EXCEPT ![i] = case]
<1>1. casesBar' = [j \in IncidentIDs |-> casesBar'[j]]
  BY DEF casesBar
<1>2. \A j \in IncidentIDs \ {i} : casesBar'[j] = casesBar[j]
  BY DEF casesBar
<1>3. casesBar = [j \in IncidentIDs |-> casesBar[j]]
  BY DEF casesBar
<1> QED
  BY <1>1, <1>2, <1>3

\* Opening an incident is the abstract Open.
LEMMA OpenedRefines ==
    ASSUME TypeOK, TypeOK', AssignedExists, NEW request \in Request, Opened(request)
    PROVE  Lifecycle!Next
<1> DEFINE i == request.id
<1>1. i \in IncidentIDs /\ request.source \in SourceEvents /\ request.body \in Bodies
  BY DEF Request
<1>2. casesBar[i] = None /\ assignments[i] = None
  BY <1>1, CaseFacts DEF Opened, AssignedExists
<1>3. \A j \in IncidentIDs : casesBar[j] # None => casesBar[j].source # request.source
  <2>1. \A j \in IncidentIDs : incidents[j] # None => incidents[j].source # request.source
    BY DEF Opened, RetainedFor
  <2>2. \A j \in IncidentIDs : CaseOf(j).source = incidents[j].source
    BY DEF CaseOf
  <2> QED
    BY <2>1, <2>2, CaseFacts
<1>4. incidents'[i] = NewRow(request) /\ assignments'[i] = None
  BY <1>1, <1>2 DEF Opened, TypeOK
<1>5. NewRow(request) # None
  <2>1. NewRow(request) \in Row
    BY <1>1 DEF NewRow, Row, Status
  <2> QED
    BY <2>1, NoneAssumption
<1>6. casesBar'[i] = [source |-> request.source, body |-> request.body, status |-> "OPEN",
                      version |-> 1, assignee |-> None]
  BY <1>1, <1>4, <1>5 DEF casesBar, NewRow
<1>7. casesBar' = [casesBar EXCEPT ![i] =
          [source |-> request.source, body |-> request.body, status |-> "OPEN",
           version |-> 1, assignee |-> None]]
  <2>1. \A j \in IncidentIDs \ {i} :
            incidents'[j] = incidents[j] /\ assignments'[j] = assignments[j]
    BY DEF Opened, TypeOK
  <2> QED
    BY <1>1, <1>6, <2>1, CasesChange
<1>8. Lifecycle!Open(i, request.source, request.body)
  BY <1>2, <1>3, <1>7 DEF Lifecycle!Open
<1> QED
  BY <1>1, <1>8 DEF Lifecycle!Next

\* A successful Transition is the abstract Advance.
LEMMA AdvancedRefines ==
    ASSUME TypeOK, TypeOK', NEW i \in IncidentIDs, NEW next \in NamedStatus, Advanced(i, next)
    PROVE  Lifecycle!Next
<1>1. casesBar[i] = CaseOf(i) /\ casesBar[i] # None
  BY CaseFacts DEF Advanced
<1>2. incidents[i] \in Row
  BY DEF Advanced, TypeOK
<1>3. /\ incidents'[i] = [incidents[i] EXCEPT !.status = next, !.version = @ + 1]
      /\ assignments'[i] = assignments[i]
  BY DEF Advanced, TypeOK
<1>4. incidents'[i] # None
  <2>1. incidents[i].version + 1 \in Nat \ {0}
    BY <1>2 DEF Row
  <2>2. [incidents[i] EXCEPT !.status = next, !.version = @ + 1] \in Row
    BY <1>2, <2>1 DEF Row, NamedStatus
  <2> QED
    BY <1>3, <2>2, NoneAssumption
<1>5. casesBar'[i] = [casesBar[i] EXCEPT !.status = next, !.version = casesBar[i].version + 1]
  <2>1. casesBar'[i] = CaseOf(i)'
    BY <1>4 DEF casesBar, CaseOf
  <2>2. /\ incidents'[i].source = incidents[i].source /\ incidents'[i].body = incidents[i].body
        /\ incidents'[i].status = next /\ incidents'[i].version = incidents[i].version + 1
    BY <1>2, <1>3 DEF Row
  <2>3. CaseOf(i)' \in Case /\ CaseOf(i) \in Case
    BY <1>2, <1>4 DEF CaseOf, Case, TypeOK, Row
  <2>4. [CaseOf(i) EXCEPT !.status = next, !.version = CaseOf(i).version + 1] \in Case
    <3>1. CaseOf(i).version + 1 \in Nat \ {0}
      BY <2>3 DEF Case
    <3> QED
      BY <1>3, <2>3, <3>1 DEF Case, TypeOK, NamedStatus
  <2>5. CaseOf(i)' = [CaseOf(i) EXCEPT !.status = next, !.version = CaseOf(i).version + 1]
    <3> DEFINE new == [CaseOf(i) EXCEPT !.status = next, !.version = CaseOf(i).version + 1]
    <3>1. /\ new.source = CaseOf(i).source /\ new.body = CaseOf(i).body
          /\ new.status = next /\ new.version = CaseOf(i).version + 1
          /\ new.assignee = CaseOf(i).assignee
      BY <2>3 DEF Case
    <3>2. /\ CaseOf(i).source = incidents[i].source /\ CaseOf(i).body = incidents[i].body
          /\ CaseOf(i).status = incidents[i].status
          /\ CaseOf(i).version = incidents[i].version
          /\ CaseOf(i).assignee = assignments[i]
      BY DEF CaseOf
    <3>3. /\ CaseOf(i)'.source = incidents'[i].source /\ CaseOf(i)'.body = incidents'[i].body
          /\ CaseOf(i)'.status = incidents'[i].status
          /\ CaseOf(i)'.version = incidents'[i].version
          /\ CaseOf(i)'.assignee = assignments'[i]
      BY DEF CaseOf
    <3>4. new \in Case
      BY <2>4
    <3> HIDE DEF new
    <3>5. /\ CaseOf(i)'.source = new.source /\ CaseOf(i)'.body = new.body
          /\ CaseOf(i)'.status = new.status /\ CaseOf(i)'.version = new.version
          /\ CaseOf(i)'.assignee = new.assignee
      BY <1>3, <2>2, <3>1, <3>2, <3>3
    <3>6. CaseOf(i)' = new
      BY <2>3, <3>4, <3>5, CaseEquality
    <3> QED
      BY <3>6 DEF new
  <2> QED
    BY <1>1, <2>1, <2>5
<1>6. casesBar' = [casesBar EXCEPT ![i] =
                      [casesBar[i] EXCEPT !.status = next, !.version = casesBar[i].version + 1]]
  <2>1. \A j \in IncidentIDs \ {i} :
            incidents'[j] = incidents[j] /\ assignments'[j] = assignments[j]
    BY DEF Advanced, TypeOK
  <2> QED
    BY <1>5, <2>1, CasesChange
<1>7. Lifecycle!ValidTransition(casesBar[i].status, next)
  BY <1>1 DEF Advanced, CaseOf, ValidTransition, Lifecycle!ValidTransition
<1>8. Lifecycle!Advance(i, next)
  BY <1>1, <1>6, <1>7 DEF Lifecycle!Advance
<1> QED
  BY <1>8 DEF Lifecycle!Next, Lifecycle!NamedStatus, NamedStatus, Lifecycle!Status, Status

\* A successful Assign is the abstract HandOver.
LEMMA HandedOverRefines ==
    ASSUME TypeOK, TypeOK', NEW i \in IncidentIDs, NEW analyst \in Principals,
           NEW by \in Principals, HandedOver(i, analyst, by)
    PROVE  Lifecycle!Next
<1> DEFINE assignment ==
        [analyst |-> analyst, by |-> by, version |-> incidents[i].version + 1]
<1>1. casesBar[i] = CaseOf(i) /\ casesBar[i] # None
  BY CaseFacts DEF HandedOver
<1>2. incidents[i] \in Row
  BY DEF HandedOver, TypeOK
<1>3. /\ incidents'[i] = [incidents[i] EXCEPT !.version = incidents[i].version + 1]
      /\ assignments'[i] = assignment
  BY DEF HandedOver, TypeOK
<1>4. incidents'[i] # None
  <2>1. [incidents[i] EXCEPT !.version = incidents[i].version + 1] \in Row
    BY <1>2 DEF Row
  <2> QED
    BY <1>3, <2>1, NoneAssumption
<1>5. casesBar'[i] = [casesBar[i] EXCEPT !.version = casesBar[i].version + 1, !.assignee = assignment]
  <2>1. casesBar'[i] = CaseOf(i)'
    BY <1>4 DEF casesBar, CaseOf
  <2>2. /\ incidents'[i].source = incidents[i].source /\ incidents'[i].body = incidents[i].body
        /\ incidents'[i].status = incidents[i].status
        /\ incidents'[i].version = incidents[i].version + 1
    BY <1>2, <1>3 DEF Row
  <2>3. CaseOf(i)' \in Case /\ CaseOf(i) \in Case
    BY <1>2, <1>4 DEF CaseOf, Case, TypeOK, Row
  <2>4. [CaseOf(i) EXCEPT !.version = CaseOf(i).version + 1, !.assignee = assignment] \in Case
    <3>1. CaseOf(i).version + 1 \in Nat \ {0}
      BY <2>3 DEF Case
    <3> QED
      BY <1>3, <2>3, <3>1 DEF Case, TypeOK, Assignment
  <2>5. CaseOf(i)' = [CaseOf(i) EXCEPT !.version = CaseOf(i).version + 1, !.assignee = assignment]
    <3> DEFINE new == [CaseOf(i) EXCEPT !.version = CaseOf(i).version + 1, !.assignee = assignment]
    <3>1. /\ new.source = CaseOf(i).source /\ new.body = CaseOf(i).body
          /\ new.status = CaseOf(i).status /\ new.version = CaseOf(i).version + 1
          /\ new.assignee = assignment
      BY <2>3 DEF Case
    <3>2. /\ CaseOf(i).source = incidents[i].source /\ CaseOf(i).body = incidents[i].body
          /\ CaseOf(i).status = incidents[i].status
          /\ CaseOf(i).version = incidents[i].version
          /\ CaseOf(i).assignee = assignments[i]
      BY DEF CaseOf
    <3>3. /\ CaseOf(i)'.source = incidents'[i].source /\ CaseOf(i)'.body = incidents'[i].body
          /\ CaseOf(i)'.status = incidents'[i].status
          /\ CaseOf(i)'.version = incidents'[i].version
          /\ CaseOf(i)'.assignee = assignments'[i]
      BY DEF CaseOf
    <3>4. new \in Case
      BY <2>4
    <3> HIDE DEF new
    <3>5. /\ CaseOf(i)'.source = new.source /\ CaseOf(i)'.body = new.body
          /\ CaseOf(i)'.status = new.status /\ CaseOf(i)'.version = new.version
          /\ CaseOf(i)'.assignee = new.assignee
      BY <1>3, <2>2, <3>1, <3>2, <3>3
    <3>6. CaseOf(i)' = new
      BY <2>3, <3>4, <3>5, CaseEquality
    <3> QED
      BY <3>6 DEF new
  <2> QED
    BY <1>1, <2>1, <2>5
<1>6. casesBar' = [casesBar EXCEPT ![i] =
                      [casesBar[i] EXCEPT !.version = casesBar[i].version + 1, !.assignee = assignment]]
  <2>1. \A j \in IncidentIDs \ {i} :
            incidents'[j] = incidents[j] /\ assignments'[j] = assignments[j]
    BY DEF HandedOver, TypeOK
  <2> QED
    BY <1>5, <2>1, CasesChange
<1>7. casesBar[i].status # "CLOSED" /\ casesBar[i].version = incidents[i].version
  BY <1>1 DEF HandedOver, CaseOf
<1>8. Lifecycle!HandOver(i, analyst, by)
  BY <1>1, <1>6, <1>7 DEF Lifecycle!HandOver, HandedOver
<1> QED
  BY <1>8 DEF Lifecycle!Next

\* The incident store implements IncidentLifecycle: for any number of handlers,
\* every interleaving of reads, updates and refusals has the effect of whole
\* operations applied to the current state, one after the other.
THEOREM StoreRefinesLifecycle == Spec => CaseworkIsAtomic
<1>1. Init => Lifecycle!Init
  BY DEF Init, Lifecycle!Init, casesBar
<1>2. Init => AssignedExists
  BY DEF Init, AssignedExists
<1>3. IInv /\ AssignedExists /\ [Next]_vars => AssignedExists'
  BY NextAssignedExists
<1>4. IInv /\ IInv' /\ AssignedExists /\ [Next]_vars => [Lifecycle!Next]_casesBar
  <2> SUFFICES ASSUME IInv, IInv', AssignedExists, [Next]_vars
               PROVE  Lifecycle!Next \/ casesBar' = casesBar
    OBVIOUS
  <2>1. CASE UNCHANGED <<incidents, assignments>>
    BY <2>1 DEF casesBar
  <2>2. CASE Next /\ ~UNCHANGED <<incidents, assignments>>
    BY <2>2, Effects, OpenedRefines, AdvancedRefines, HandedOverRefines DEF IInv
  <2> QED
    BY <2>1, <2>2 DEF vars
<1> QED
  BY <1>1, <1>2, <1>3, <1>4, Inductive, PTL DEF Spec, CaseworkIsAtomic, Lifecycle!Spec

-----------------------------------------------------------------------------
(* Idempotent creation                                                     *)

SourcesDistinct ==
    \A i, j \in IncidentIDs :
        (incidents[i] # None /\ incidents[j] # None /\ incidents[i].source = incidents[j].source)
            => i = j
CreateIsTruthful ==
    (lastReply # None /\ lastReply.op = "create" /\ lastReply.outcome = "ok")
        => /\ incidents[lastReply.request.id] # None
           /\ Matches(lastReply.request.id, incidents[lastReply.request.id], lastReply.request)

\* No operation changes the source event of a row, and a new row brings a source
\* event that no other row has.
LEMMA NextSourcesDistinct ==
    ASSUME IInv, SourcesDistinct, Next PROVE SourcesDistinct'
<1>1. TypeOK
  BY DEF IInv
<1>2. CASE UNCHANGED <<incidents, assignments>>
  BY <1>2 DEF SourcesDistinct
<1>3. ASSUME NEW request \in Request, Opened(request) PROVE SourcesDistinct'
  <2>1. /\ incidents'[request.id].source = request.source
        /\ \A j \in IncidentIDs \ {request.id} : incidents'[j] = incidents[j]
        /\ \A j \in IncidentIDs : incidents[j] # None => incidents[j].source # request.source
    BY <1>1, <1>3 DEF Opened, NewRow, RetainedFor, TypeOK, Request
  <2> QED
    BY <2>1 DEF SourcesDistinct
<1>4. ASSUME NEW i \in IncidentIDs, incidents[i] \in Row,
             \/ \E next : incidents' = [incidents EXCEPT ![i] =
                               [incidents[i] EXCEPT !.status = next, !.version = @ + 1]]
             \/ incidents' = [incidents EXCEPT ![i] =
                               [incidents[i] EXCEPT !.version = incidents[i].version + 1]]
      PROVE  SourcesDistinct'
  <2>1. /\ incidents'[i].source = incidents[i].source
        /\ \A j \in IncidentIDs \ {i} : incidents'[j] = incidents[j]
    BY <1>1, <1>4 DEF TypeOK, Row
  <2>2. incidents[i] # None
    BY <1>4, NoneAssumption
  <2> QED
    BY <2>1, <2>2 DEF SourcesDistinct
<1>5. ASSUME NEW i \in IncidentIDs, NEW next \in NamedStatus, Advanced(i, next)
      PROVE  SourcesDistinct'
  BY <1>1, <1>4, <1>5 DEF Advanced, TypeOK
<1>6. ASSUME NEW i \in IncidentIDs, NEW analyst \in Principals, NEW by \in Principals,
             HandedOver(i, analyst, by)
      PROVE  SourcesDistinct'
  BY <1>1, <1>4, <1>6 DEF HandedOver, TypeOK
<1> QED
  BY <1>2, <1>3, <1>5, <1>6, Effects

\* A create that is accepted finds or makes the row it asked for.
LEMMA NextCreateIsTruthful ==
    ASSUME IInv, Next PROVE CreateIsTruthful'
<1>1. TypeOK
  BY DEF IInv
<1> SUFFICES ASSUME lastReply' # None, lastReply'.op = "create", lastReply'.outcome = "ok"
             PROVE  /\ incidents'[lastReply'.request.id] # None
                    /\ Matches(lastReply'.request.id, incidents'[lastReply'.request.id],
                               lastReply'.request)
  BY DEF CreateIsTruthful
<1>2. ASSUME NEW c \in Clients, NEW request \in Request, CreateInsert(c, request)
      PROVE  /\ incidents'[lastReply'.request.id] # None
             /\ Matches(lastReply'.request.id, incidents'[lastReply'.request.id],
                        lastReply'.request)
  <2>1. lastReply'.request = request
    BY <1>2 DEF CreateInsert
  <2>2. incidents'[request.id] = NewRow(request)
    BY <1>1, <1>2 DEF CreateInsert, TypeOK, Request
  <2>3. NewRow(request) \in Row
    BY DEF NewRow, Row, Request, Status
  <2> QED
    BY <2>1, <2>2, <2>3, NoneAssumption DEF Matches, NewRow
<1>3. ASSUME NEW c \in Clients, NEW request \in Request, CreateReplay(c, request)
      PROVE  /\ incidents'[lastReply'.request.id] # None
             /\ Matches(lastReply'.request.id, incidents'[lastReply'.request.id],
                        lastReply'.request)
  <2>1. PICK i \in RetainedFor(request.source) :
            lastReply' = [op |-> "create", request |-> request,
                          outcome |-> IF Matches(i, incidents[i], request)
                                      THEN "ok" ELSE "idempotency_conflict"]
    BY <1>3 DEF CreateReplay
  <2>2. lastReply'.request = request /\ Matches(i, incidents[i], request)
    BY <2>1
  <2>3. i = request.id /\ incidents[i] # None /\ incidents' = incidents
    BY <1>3, <2>2 DEF Matches, RetainedFor, CreateReplay, tables
  <2> QED
    BY <2>2, <2>3
<1>4. ASSUME NEW c \in Clients, NEW request \in Request PROVE ~CreateDuplicateID(c, request)
  BY DEF CreateDuplicateID
<1>5. ASSUME NEW c \in Clients PROVE ~Transition(c)
  BY DEF Transition, TransitionRead, TransitionUpdate, TransitionLost, TransitionAborted, ReplyTo
<1>6. ASSUME NEW c \in Clients PROVE ~Assign(c)
  <2>1. ASSUME NEW i \in IncidentIDs, NEW analyst \in Principals, NEW by \in Principals,
               NEW v \in Quotable(i)
        PROVE  ~AssignUpdate(c, i, v, analyst, by)
    BY DEF AssignUpdate, ReplyTo
  <2>2. ~AssignDiagnose(c) /\ ~AssignDiagnoseFails(c)
    BY DEF AssignDiagnose, AssignDiagnoseFails, ReplyTo
  <2>3. ASSUME NEW i \in IncidentIDs, NEW v \in Quotable(i) PROVE ~AssignMiss(c, i, v)
    BY DEF AssignMiss
  <2> QED
    BY <2>1, <2>2, <2>3 DEF Assign
<1>7. ASSUME NEW c \in Clients, NEW i \in IncidentIDs, NEW g \in Geofences, NEW e \in Evidences
      PROVE  ~Correlate(c, i, g, e)
  BY DEF Correlate
<1> QED
  BY <1>2, <1>3, <1>4, <1>5, <1>6, <1>7 DEF Next, Create

\* One source event opens at most one incident for any number of creators, and
\* an accepted create names the incident that is retained.
THEOREM OneIncidentPerSource == Spec => []SourceOpensOneIncident
<1>1. SourceOpensOneIncident <=> SourcesDistinct /\ CreateIsTruthful
  BY DEF SourceOpensOneIncident, SourcesDistinct, CreateIsTruthful
<1>2. Init => SourcesDistinct /\ CreateIsTruthful
  BY DEF Init, SourcesDistinct, CreateIsTruthful
<1>3. IInv /\ SourcesDistinct /\ CreateIsTruthful /\ [Next]_vars
          => (SourcesDistinct /\ CreateIsTruthful)'
  <2>1. CASE UNCHANGED vars
    BY <2>1 DEF vars, SourcesDistinct, CreateIsTruthful
  <2> QED
    BY <2>1, NextSourcesDistinct, NextCreateIsTruthful
<1> QED
  BY <1>1, <1>2, <1>3, Inductive, PTL DEF Spec

-----------------------------------------------------------------------------
(* The outbox tells each incident's history.  What one more row does to a  *)
(* history is proved of sequences in general; what the store's steps       *)
(* append is proved from the steps.                                        *)

-----------------------------------------------------------------------------
(* Histories that grow by one event                                        *)

\* The four parts of OutboxTellsHistory, of one incident's outbox rows s.
VersionsTold(s, version) ==
    /\ \A v \in 1..version : \E k \in DOMAIN s : IsVersionedEvent(s[k]) /\ s[k].version = v
    /\ \A k \in DOMAIN s : IsVersionedEvent(s[k]) => s[k].version \in 1..version
    /\ \A j, k \in DOMAIN s :
          (j < k /\ IsVersionedEvent(s[j]) /\ IsVersionedEvent(s[k]))
              => s[j].version < s[k].version
StatusesTold(s, status) ==
    /\ \A j, k \in DOMAIN s :
          (/\ j < k /\ IsStatusEvent(s[j]) /\ IsStatusEvent(s[k])
           /\ \A m \in DOMAIN s : j < m /\ m < k => ~IsStatusEvent(s[m]))
              => ValidTransition(s[j].status, s[k].status)
    /\ \A k \in DOMAIN s :
          (IsStatusEvent(s[k]) /\ \A m \in DOMAIN s : k < m => ~IsStatusEvent(s[m]))
              => s[k].status = status
AssignmentTold(s, assignment) ==
    \A k \in DOMAIN s :
        (s[k].type = "incident.assigned"
         /\ \A m \in DOMAIN s : k < m => s[m].type # "incident.assigned")
            => assignment = [analyst |-> s[k].analyst, by |-> s[k].by, version |-> s[k].version]
IsCorrelation(e, g) == e.type = "incident.spatial_correlated" /\ e.geofence = g
CorrelationTold(s, g, evidence) ==
    /\ evidence # None => \E k \in DOMAIN s : IsCorrelation(s[k], g)
    /\ \A k \in DOMAIN s : IsCorrelation(s[k], g) => s[k].evidence = evidence
    /\ \A j, k \in DOMAIN s : IsCorrelation(s[j], g) /\ IsCorrelation(s[k], g) => j = k

\* One event more.
LEMMA AppendFacts ==
    ASSUME NEW S, NEW s \in Seq(S), NEW e \in S
    PROVE  /\ Len(s) \in Nat /\ DOMAIN s = 1..Len(s)
           /\ DOMAIN Append(s, e) = 1..(Len(s) + 1)
           /\ \A k \in DOMAIN s : Append(s, e)[k] = s[k]
           /\ Append(s, e)[Len(s) + 1] = e
OBVIOUS

\* Versions go on with the next one, or a correlation leaves them alone.
LEMMA VersionsGrow ==
    ASSUME NEW S, NEW s \in Seq(S), NEW e \in S, NEW version \in Nat, VersionsTold(s, version)
    PROVE  /\ IsVersionedEvent(e) /\ e.version = version + 1
                  => VersionsTold(Append(s, e), version + 1)
           /\ ~IsVersionedEvent(e) => VersionsTold(Append(s, e), version)
<1> DEFINE n == Len(s)
           t == Append(s, e)
<1>0. /\ n \in Nat /\ DOMAIN s = 1..n /\ DOMAIN t = 1..(n + 1)
      /\ \A k \in 1..n : t[k] = s[k]
      /\ t[n + 1] = e
  BY AppendFacts
<1> HIDE DEF n, t
<1>1. ASSUME IsVersionedEvent(e), e.version = version + 1
      PROVE  VersionsTold(t, version + 1)
  <2>1. ASSUME NEW v \in 1..(version + 1)
        PROVE  \E k \in DOMAIN t : IsVersionedEvent(t[k]) /\ t[k].version = v
    <3>1. CASE v = version + 1
      BY <1>0, <1>1, <3>1
    <3>2. CASE v \in 1..version
      BY <1>0, <3>2 DEF VersionsTold
    <3> QED
      BY <3>1, <3>2
  <2>2. ASSUME NEW k \in DOMAIN t, IsVersionedEvent(t[k])
        PROVE  t[k].version \in 1..(version + 1)
    BY <1>0, <1>1, <2>2 DEF VersionsTold
  <2>3. ASSUME NEW j \in DOMAIN t, NEW k \in DOMAIN t, j < k,
               IsVersionedEvent(t[j]), IsVersionedEvent(t[k])
        PROVE  t[j].version < t[k].version
    <3>1. j \in 1..n /\ t[j].version \in 1..version
      BY <1>0, <2>3 DEF VersionsTold
    <3>2. CASE k = n + 1
      BY <1>0, <1>1, <3>1, <3>2
    <3>3. CASE k \in 1..n
      BY <1>0, <2>3, <3>1, <3>3 DEF VersionsTold
    <3> QED
      BY <1>0, <3>2, <3>3
  <2> QED
    BY <2>1, <2>2, <2>3 DEF VersionsTold
<1>2. ASSUME ~IsVersionedEvent(e)
      PROVE  VersionsTold(t, version)
  <2>1. \A k \in DOMAIN t : IsVersionedEvent(t[k]) => k \in DOMAIN s /\ t[k] = s[k]
    BY <1>0, <1>2
  <2>2. \A k \in DOMAIN s : k \in DOMAIN t /\ t[k] = s[k]
    BY <1>0
  <2> QED
    BY <2>1, <2>2 DEF VersionsTold
<1> QED
  BY <1>1, <1>2 DEF t

\* Statuses go on along an edge, start, or stay.
LEMMA StatusesGrow ==
    ASSUME NEW S, NEW s \in Seq(S), NEW e \in S, NEW status, StatusesTold(s, status)
    PROVE  /\ (/\ IsStatusEvent(e)
               /\ \/ ValidTransition(status, e.status)
                  \/ \A k \in DOMAIN s : ~IsStatusEvent(s[k]))
                  => StatusesTold(Append(s, e), e.status)
           /\ ~IsStatusEvent(e) => StatusesTold(Append(s, e), status)
<1> DEFINE n == Len(s)
           t == Append(s, e)
<1>0. /\ n \in Nat /\ DOMAIN s = 1..n /\ DOMAIN t = 1..(n + 1)
      /\ \A k \in 1..n : t[k] = s[k]
      /\ t[n + 1] = e
  BY AppendFacts
<1> HIDE DEF n, t
<1>1. ASSUME IsStatusEvent(e),
             \/ ValidTransition(status, e.status)
             \/ \A k \in DOMAIN s : ~IsStatusEvent(s[k])
      PROVE  StatusesTold(t, e.status)
  <2>1. ASSUME NEW j \in DOMAIN t, NEW k \in DOMAIN t, j < k,
               IsStatusEvent(t[j]), IsStatusEvent(t[k]),
               \A m \in DOMAIN t : j < m /\ m < k => ~IsStatusEvent(t[m])
        PROVE  ValidTransition(t[j].status, t[k].status)
    <3>1. j \in 1..n /\ t[j] = s[j]
      BY <1>0, <2>1
    <3>2. CASE k = n + 1
      <4>1. \A m \in DOMAIN s : j < m => ~IsStatusEvent(s[m])
        BY <1>0, <2>1, <3>2
      <4>2. s[j].status = status /\ IsStatusEvent(s[j]) /\ j \in DOMAIN s
        BY <1>0, <2>1, <3>1, <4>1 DEF StatusesTold
      <4> QED
        BY <1>0, <1>1, <3>1, <3>2, <4>2
    <3>3. CASE k \in 1..n
      <4>1. t[k] = s[k] /\ \A m \in DOMAIN s : j < m /\ m < k => ~IsStatusEvent(s[m])
        BY <1>0, <2>1, <3>3
      <4> QED
        BY <1>0, <2>1, <3>1, <3>3, <4>1 DEF StatusesTold
    <3> QED
      BY <1>0, <3>2, <3>3
  <2>2. ASSUME NEW k \in DOMAIN t, IsStatusEvent(t[k]),
               \A m \in DOMAIN t : k < m => ~IsStatusEvent(t[m])
        PROVE  t[k].status = e.status
    BY <1>0, <1>1, <2>2
  <2> QED
    BY <2>1, <2>2 DEF StatusesTold
<1>2. ASSUME ~IsStatusEvent(e)
      PROVE  StatusesTold(t, status)
  <2>1. \A k \in DOMAIN t : IsStatusEvent(t[k]) => k \in DOMAIN s /\ t[k] = s[k]
    BY <1>0, <1>2
  <2>2. \A k \in DOMAIN s : k \in DOMAIN t /\ t[k] = s[k]
    BY <1>0
  <2>3. ASSUME NEW j \in DOMAIN t, NEW k \in DOMAIN t, j < k,
               IsStatusEvent(t[j]), IsStatusEvent(t[k]),
               \A m \in DOMAIN t : j < m /\ m < k => ~IsStatusEvent(t[m])
        PROVE  ValidTransition(t[j].status, t[k].status)
    BY <2>1, <2>2, <2>3 DEF StatusesTold
  <2>4. ASSUME NEW k \in DOMAIN t, IsStatusEvent(t[k]),
               \A m \in DOMAIN t : k < m => ~IsStatusEvent(t[m])
        PROVE  t[k].status = status
    BY <2>1, <2>2, <2>4 DEF StatusesTold
  <2> QED
    BY <2>3, <2>4 DEF StatusesTold
<1> QED
  BY <1>1, <1>2 DEF t

\* An assignment is replaced with its event, or stays.
LEMMA AssignmentsGrow ==
    ASSUME NEW S, NEW s \in Seq(S), NEW e \in S, NEW assignment, AssignmentTold(s, assignment)
    PROVE  /\ e.type = "incident.assigned" =>
                  AssignmentTold(Append(s, e), [analyst |-> e.analyst, by |-> e.by, version |-> e.version])
           /\ e.type # "incident.assigned" => AssignmentTold(Append(s, e), assignment)
<1> DEFINE n == Len(s)
           t == Append(s, e)
           put == [analyst |-> e.analyst, by |-> e.by, version |-> e.version]
<1>0. /\ n \in Nat /\ DOMAIN s = 1..n /\ DOMAIN t = 1..(n + 1)
      /\ \A k \in 1..n : t[k] = s[k]
      /\ t[n + 1] = e
  BY AppendFacts
<1> HIDE DEF n, t
<1>1. ASSUME e.type = "incident.assigned"
      PROVE  AssignmentTold(t, put)
  <2>1. ASSUME NEW k \in DOMAIN t, \A m \in DOMAIN t : k < m => t[m].type # "incident.assigned"
        PROVE  t[k] = e
    BY <1>0, <1>1, <2>1
  <2> QED
    BY <2>1 DEF AssignmentTold
<1>2. ASSUME e.type # "incident.assigned"
      PROVE  AssignmentTold(t, assignment)
  <2>1. \A k \in DOMAIN t : t[k].type = "incident.assigned" => k \in DOMAIN s /\ t[k] = s[k]
    BY <1>0, <1>2
  <2>2. \A k \in DOMAIN s : k \in DOMAIN t /\ t[k] = s[k]
    BY <1>0
  <2> QED
    BY <2>1, <2>2 DEF AssignmentTold
<1> QED
  BY <1>1, <1>2 DEF t

\* A correlation is announced when its row is new, or was before.
LEMMA CorrelationsGrow ==
    ASSUME NEW S, NEW s \in Seq(S), NEW e \in S, NEW g, NEW evidence,
           CorrelationTold(s, g, evidence)
    PROVE  /\ (IsCorrelation(e, g) /\ \A k \in DOMAIN s : ~IsCorrelation(s[k], g))
                  => CorrelationTold(Append(s, e), g, e.evidence)
           /\ ~IsCorrelation(e, g) => CorrelationTold(Append(s, e), g, evidence)
<1> DEFINE n == Len(s)
           t == Append(s, e)
<1>0. /\ n \in Nat /\ DOMAIN s = 1..n /\ DOMAIN t = 1..(n + 1)
      /\ \A k \in 1..n : t[k] = s[k]
      /\ t[n + 1] = e
  BY AppendFacts
<1> HIDE DEF n, t
<1>1. ASSUME IsCorrelation(e, g), \A k \in DOMAIN s : ~IsCorrelation(s[k], g)
      PROVE  CorrelationTold(t, g, e.evidence)
  <2>1. \A k \in DOMAIN t : IsCorrelation(t[k], g) <=> k = n + 1
    BY <1>0, <1>1
  <2>2. n + 1 \in DOMAIN t
    BY <1>0
  <2> QED
    BY <1>0, <2>1, <2>2 DEF CorrelationTold
<1>2. ASSUME ~IsCorrelation(e, g)
      PROVE  CorrelationTold(t, g, evidence)
  <2>1. \A k \in DOMAIN t : IsCorrelation(t[k], g) => k \in DOMAIN s /\ t[k] = s[k]
    BY <1>0, <1>2
  <2>2. \A k \in DOMAIN s : k \in DOMAIN t /\ t[k] = s[k]
    BY <1>0
  <2> QED
    BY <2>1, <2>2 DEF CorrelationTold
<1> QED
  BY <1>1, <1>2 DEF t

-----------------------------------------------------------------------------
(* What the steps of the store append                                      *)

\* The properties, one incident at a time.
Told(i) ==
    /\ VersionsTold(outbox[i], VersionOf(i))
    /\ StatusesTold(outbox[i], incidents[i].status)
    /\ assignments[i] # None => assignments[i].version \in 2..VersionOf(i)
    /\ AssignmentTold(outbox[i], assignments[i])
    /\ \A g \in Geofences : CorrelationTold(outbox[i], g, correlations[i][g])

\* OutboxTellsHistory in these terms.
LEMMA HistoryParts == OutboxTellsHistory <=> \A i \in IncidentIDs : Told(i)
<1>1. VersionHistory <=> \A i \in IncidentIDs : VersionsTold(outbox[i], VersionOf(i))
  BY DEF VersionHistory, VersionsTold
<1>2. StatusHistory <=> \A i \in IncidentIDs : StatusesTold(outbox[i], incidents[i].status)
  BY DEF StatusHistory, StatusesTold
<1>3. AssignmentHistory <=>
        \A i \in IncidentIDs :
            /\ assignments[i] # None => assignments[i].version \in 2..VersionOf(i)
            /\ AssignmentTold(outbox[i], assignments[i])
  BY DEF AssignmentHistory, AssignmentTold
<1>4. CorrelationHistory <=>
        \A i \in IncidentIDs, g \in Geofences : CorrelationTold(outbox[i], g, correlations[i][g])
  BY DEF CorrelationHistory, CorrelationTold, IsCorrelation
<1> QED
  BY <1>1, <1>2, <1>3, <1>4 DEF OutboxTellsHistory, Told

\* An incident no step was about.
Untouched(i) ==
    /\ outbox'[i] = outbox[i] /\ incidents'[i] = incidents[i]
    /\ assignments'[i] = assignments[i] /\ correlations'[i] = correlations[i]

\* The four changes and their events.
Announced(i, e) ==
    /\ e \in Event
    /\ outbox'[i] = Append(outbox[i], e)
    /\ \/ /\ e.type = "incident.created" /\ incidents[i] = None
          /\ incidents'[i] # None /\ incidents'[i].version = e.version /\ e.version = 1
          /\ incidents'[i].status = e.status
          /\ assignments'[i] = assignments[i] /\ correlations'[i] = correlations[i]
       \/ /\ e.type = "incident.status_changed" /\ incidents[i] # None
          /\ incidents'[i] # None /\ incidents'[i].version = e.version
          /\ e.version = incidents[i].version + 1
          /\ incidents'[i].status = e.status /\ ValidTransition(incidents[i].status, e.status)
          /\ assignments'[i] = assignments[i] /\ correlations'[i] = correlations[i]
       \/ /\ e.type = "incident.assigned" /\ incidents[i] # None
          /\ incidents'[i] # None /\ incidents'[i].version = e.version
          /\ e.version = incidents[i].version + 1
          /\ incidents'[i].status = incidents[i].status
          /\ assignments'[i] = [analyst |-> e.analyst, by |-> e.by, version |-> e.version]
          /\ assignments'[i].version = e.version
          /\ correlations'[i] = correlations[i]
       \/ /\ e.type = "incident.spatial_correlated" /\ incidents'[i] = incidents[i]
          /\ assignments'[i] = assignments[i]
          /\ \E g \in Geofences :
                /\ e.geofence = g /\ correlations[i][g] = None
                /\ correlations'[i][g] = e.evidence
                /\ \A h \in Geofences \ {g} : correlations'[i][h] = correlations[i][h]

\* What a step does to one incident.
StepTells(i) == Untouched(i) \/ \E e \in Event : Announced(i, e)

\* An inserted incident is announced in its transaction.
LEMMA CreateTells ==
    ASSUME TypeOK, NEW c \in Clients, NEW request \in Request, CreateInsert(c, request),
           NEW i \in IncidentIDs
    PROVE  StepTells(i)
<1> DEFINE e == [type |-> "incident.created", status |-> "OPEN", version |-> 1]
<1>1. /\ request.id \in IncidentIDs /\ incidents[request.id] = None
      /\ incidents' = [incidents EXCEPT ![request.id] = NewRow(request)]
      /\ outbox' = [outbox EXCEPT ![request.id] = Append(outbox[request.id], e)]
      /\ UNCHANGED <<assignments, correlations>>
  BY DEF CreateInsert, Emit, Request
<1>2. CASE i # request.id
  BY <1>1, <1>2 DEF StepTells, Untouched, TypeOK
<1>3. CASE i = request.id
  <2>1. e \in Event
    BY DEF Event, StatusEvent, Status
  <2>2. NewRow(request) \in Row
    BY DEF NewRow, Row, Request, Status
  <2>3. incidents'[i] = NewRow(request) /\ outbox'[i] = Append(outbox[i], e)
    BY <1>1, <1>3 DEF TypeOK
  <2>4. NewRow(request) # None /\ NewRow(request).status = "OPEN" /\ NewRow(request).version = 1
    BY <2>2, NoneAssumption DEF NewRow
  <2>5. e.type = "incident.created" /\ e.status = "OPEN" /\ e.version = 1
    OBVIOUS
  <2> HIDE DEF e
  <2>6. Announced(i, e)
    BY <1>1, <1>3, <2>1, <2>3, <2>4, <2>5 DEF Announced
  <2> QED
    BY <2>1, <2>6 DEF StepTells
<1> QED
  BY <1>2, <1>3

\* A transition is announced with the edge it took: the row it read is still the
\* row when its update matches.
LEMMA TransitionTells ==
    ASSUME IInv, NEW c \in Clients, TransitionUpdate(c), NEW i \in IncidentIDs
    PROVE  StepTells(i)
<1> DEFINE k == call[c]
           version == incidents[k.id].version + 1
           e == [type |-> "incident.status_changed", status |-> k.next, version |-> version]
<1>0. TypeOK /\ SnapshotInv
  BY DEF IInv
<1>1. k # None /\ k.op = "transition" /\ UpdateMatches(k) /\ UNCHANGED <<assignments, correlations>>
  BY DEF TransitionUpdate
<1>2. k \in TransitionCall /\ k.id \in IncidentIDs /\ k.next \in Status
  <2>1. k \in TransitionCall
    BY <1>0, <1>1, CallType
  <2> QED
    BY <2>1 DEF TransitionCall, NamedStatus
<1>3. incidents[k.id] \in Row /\ incidents[k.id] # None /\ incidents[k.id].status = k.status
  BY <1>0, <1>1, <1>2 DEF UpdateMatches, TypeOK
<1>4. version \in Nat \ {0}
  BY <1>3 DEF Row
<1>5. outbox' = [outbox EXCEPT ![k.id] = Append(outbox[k.id], e)]
  BY DEF TransitionUpdate, Emit
<1>6. incidents' = [incidents EXCEPT ![k.id] =
                       [incidents[k.id] EXCEPT !.status = k.next, !.version = version]]
  BY <1>0, <1>2, <1>3 DEF TransitionUpdate, TypeOK, Row
<1>7. ValidTransition(incidents[k.id].status, k.next)
  BY <1>0, <1>1, <1>3 DEF SnapshotInv
<1>8. CASE i # k.id
  BY <1>0, <1>1, <1>5, <1>6, <1>8 DEF StepTells, Untouched, TypeOK
<1>9. CASE i = k.id
  <2> DEFINE new == [incidents[i] EXCEPT !.status = k.next, !.version = version]
  <2>1. e \in Event
    BY <1>2, <1>4 DEF Event, StatusEvent
  <2>2. new \in Row /\ new.status = k.next /\ new.version = version
    BY <1>2, <1>3, <1>4, <1>9 DEF Row
  <2>3. incidents'[i] = new /\ outbox'[i] = Append(outbox[i], e)
    BY <1>0, <1>5, <1>6, <1>9 DEF TypeOK
  <2>4. e.type = "incident.status_changed" /\ e.status = k.next /\ e.version = version
    OBVIOUS
  <2>5. new # None /\ version = incidents[i].version + 1
    BY <1>9, <2>2, NoneAssumption
  <2> HIDE DEF e, new, version
  <2>6. Announced(i, e)
    BY <1>1, <1>3, <1>7, <1>9, <2>1, <2>2, <2>3, <2>4, <2>5 DEF Announced
  <2> QED
    BY <2>1, <2>6 DEF StepTells
<1> QED
  BY <1>8, <1>9

\* An assignment is announced as it is stored.
LEMMA AssignTells ==
    ASSUME TypeOK, NEW c \in Clients, NEW d \in IncidentIDs, NEW analyst \in Principals,
           NEW by \in Principals, NEW v \in Quotable(d), AssignUpdate(c, d, v, analyst, by),
           NEW i \in IncidentIDs
    PROVE  StepTells(i)
<1> DEFINE version == incidents[d].version + 1
           e == [type |-> "incident.assigned", analyst |-> analyst, by |-> by, version |-> version]
           row == [analyst |-> analyst, by |-> by, version |-> version]
           new == [incidents[d] EXCEPT !.version = version]
<1>1. /\ incidents[d] \in Row /\ incidents[d] # None
      /\ incidents' = [incidents EXCEPT ![d] = new]
      /\ assignments' = [assignments EXCEPT ![d] = row]
      /\ outbox' = [outbox EXCEPT ![d] = Append(outbox[d], e)]
      /\ correlations' = correlations
  BY DEF AssignUpdate, Assignable, PutAssignment, Emit, TypeOK
<1>2. version \in Nat \ {0}
  BY <1>1 DEF Row
<1>3. CASE i # d
  BY <1>1, <1>3 DEF StepTells, Untouched, TypeOK
<1>4. CASE i = d
  <2>1. e \in Event
    BY <1>2 DEF Event, AssignedEvent
  <2>2. new \in Row /\ new.status = incidents[i].status /\ new.version = version
    BY <1>1, <1>2, <1>4 DEF Row
  <2>3. incidents'[i] = new /\ outbox'[i] = Append(outbox[i], e) /\ assignments'[i] = row
    BY <1>1, <1>4 DEF TypeOK
  <2>4. /\ e.type = "incident.assigned" /\ e.version = version
        /\ row = [analyst |-> e.analyst, by |-> e.by, version |-> e.version]
        /\ row.version = e.version
    OBVIOUS
  <2>5. new # None /\ version = incidents[i].version + 1
    BY <1>4, <2>2, NoneAssumption
  <2> HIDE DEF e, new, version, row
  <2>6. Announced(i, e)
    BY <1>1, <1>4, <2>1, <2>2, <2>3, <2>4, <2>5 DEF Announced
  <2> QED
    BY <2>1, <2>6 DEF StepTells
<1> QED
  BY <1>3, <1>4

\* So is a correlation, when its pair is new.
LEMMA CorrelateTells ==
    ASSUME TypeOK, NEW c \in Clients, NEW d \in IncidentIDs, NEW g \in Geofences,
           NEW evidence \in Evidences, Correlate(c, d, g, evidence), NEW i \in IncidentIDs
    PROVE  StepTells(i)
<1> DEFINE e == [type |-> "incident.spatial_correlated", geofence |-> g, evidence |-> evidence]
<1>1. UNCHANGED <<incidents, assignments>>
  BY DEF Correlate
<1>2. CASE UNCHANGED <<correlations, outbox>>
  BY <1>1, <1>2 DEF StepTells, Untouched
<1>3. CASE ~UNCHANGED <<correlations, outbox>>
  <2>1. /\ correlations[d][g] = None
        /\ correlations' = [correlations EXCEPT ![d] = [correlations[d] EXCEPT ![g] = evidence]]
        /\ outbox' = [outbox EXCEPT ![d] = Append(outbox[d], e)]
    BY <1>3 DEF Correlate, Emit
  <2>2. CASE i # d
    BY <1>1, <2>1, <2>2 DEF StepTells, Untouched, TypeOK
  <2>3. CASE i = d
    <3>1. e \in Event
      BY DEF Event, CorrelatedEvent
    <3>2. /\ outbox'[i] = Append(outbox[i], e)
          /\ correlations'[i][g] = evidence
          /\ \A h \in Geofences \ {g} : correlations'[i][h] = correlations[i][h]
      BY <2>1, <2>3 DEF TypeOK
    <3>3. e.type = "incident.spatial_correlated" /\ e.geofence = g /\ e.evidence = evidence
      OBVIOUS
    <3> HIDE DEF e
    <3>4. Announced(i, e)
      BY <1>1, <2>1, <2>3, <3>1, <3>2, <3>3 DEF Announced
    <3> QED
      BY <3>1, <3>4 DEF StepTells
  <2> QED
    BY <2>2, <2>3
<1> QED
  BY <1>2, <1>3

\* No other step changes a table.
LEMMA NextTells ==
    ASSUME IInv, [Next]_vars, NEW i \in IncidentIDs
    PROVE  StepTells(i)
<1>0. TypeOK
  BY DEF IInv
<1>1. CASE UNCHANGED tables
  BY <1>1 DEF tables, StepTells, Untouched
<1>2. ASSUME NEW c \in Clients, NEW request \in Request, Create(c, request)
      PROVE  StepTells(i)
  BY <1>0, <1>1, <1>2, CreateTells DEF Create, CreateReplay, CreateDuplicateID
<1>3. ASSUME NEW c \in Clients, Transition(c)
      PROVE  StepTells(i)
  BY <1>1, <1>3, TransitionTells DEF Transition, TransitionRead, TransitionLost, TransitionAborted
<1>4. ASSUME NEW c \in Clients, Assign(c)
      PROVE  StepTells(i)
  BY <1>0, <1>1, <1>4, AssignTells DEF Assign, AssignMiss, AssignDiagnose, AssignDiagnoseFails
<1>5. ASSUME NEW c \in Clients, NEW d \in IncidentIDs, NEW g \in Geofences, NEW e \in Evidences,
             Correlate(c, d, g, e)
      PROVE  StepTells(i)
  BY <1>0, <1>5, CorrelateTells
<1> QED
  BY <1>1, <1>2, <1>3, <1>4, <1>5 DEF Next, vars, tables

-----------------------------------------------------------------------------
(* The theorem                                                             *)

\* Each event fits the history it is appended to.
LEMMA TellsKeepsTold ==
    ASSUME TypeOK, TypeOK', NEW i \in IncidentIDs, Told(i), StepTells(i)
    PROVE  Told(i)'
<1> DEFINE s == outbox[i]
<1>0. /\ s \in Seq(Event) /\ outbox'[i] \in Seq(Event)
      /\ VersionOf(i) \in Nat /\ VersionOf(i)' \in Nat
      /\ incidents[i] # None => VersionOf(i) = incidents[i].version
      /\ incidents'[i] # None => VersionOf(i)' = incidents'[i].version
      /\ incidents[i] = None => VersionOf(i) = 0
  BY DEF VersionOf, TypeOK, Row
<1>1. CASE Untouched(i)
  BY <1>1 DEF Untouched, Told, VersionOf
<1>2. ASSUME NEW e \in Event, Announced(i, e)
      PROVE  Told(i)'
  <2>0. outbox'[i] = Append(s, e)
    BY <1>2 DEF Announced
  <2>1. VersionsTold(Append(s, e), VersionOf(i)')
    <3>1. VersionsTold(s, VersionOf(i))
      BY DEF Told
    <3>2. CASE IsVersionedEvent(e)
      <4>1. e.version = VersionOf(i) + 1 /\ VersionOf(i)' = VersionOf(i) + 1
        BY <1>0, <1>2, <3>2 DEF Announced, IsVersionedEvent
      <4>2. VersionsTold(Append(s, e), VersionOf(i) + 1)
        BY <1>0, <3>1, <3>2, <4>1, VersionsGrow
      <4> QED
        BY <4>1, <4>2
    <3>3. CASE ~IsVersionedEvent(e)
      <4>1. VersionOf(i)' = VersionOf(i)
        BY <1>2, <3>3 DEF Announced, IsVersionedEvent, VersionOf
      <4>2. VersionsTold(Append(s, e), VersionOf(i))
        BY <1>0, <3>1, <3>3, VersionsGrow
      <4> QED
        BY <4>1, <4>2
    <3> QED
      BY <3>2, <3>3
  <2>2. StatusesTold(Append(s, e), incidents'[i].status)
    <3>1. StatusesTold(s, incidents[i].status)
      BY DEF Told
    <3>2. CASE IsStatusEvent(e)
      <4>1. incidents[i] = None => \A k \in DOMAIN s : ~IsStatusEvent(s[k])
        BY <1>0 DEF Told, VersionsTold, IsStatusEvent, IsVersionedEvent
      <4>2. /\ incidents'[i].status = e.status
            /\ \/ ValidTransition(incidents[i].status, e.status)
               \/ incidents[i] = None
        BY <1>2, <3>2 DEF Announced, IsStatusEvent
      <4>3. StatusesTold(Append(s, e), e.status)
        BY <1>0, <3>1, <3>2, <4>1, <4>2, StatusesGrow
      <4> QED
        BY <4>2, <4>3
    <3>3. CASE ~IsStatusEvent(e)
      <4>1. incidents'[i].status = incidents[i].status
        BY <1>2, <3>3 DEF Announced, IsStatusEvent
      <4>2. StatusesTold(Append(s, e), incidents[i].status)
        BY <1>0, <3>1, <3>3, StatusesGrow
      <4> QED
        BY <4>1, <4>2
    <3> QED
      BY <3>2, <3>3
  <2>3. /\ assignments'[i] # None => assignments'[i].version \in 2..VersionOf(i)'
        /\ AssignmentTold(Append(s, e), assignments'[i])
    <3>1. /\ assignments[i] # None => assignments[i].version \in 2..VersionOf(i)
          /\ AssignmentTold(s, assignments[i])
      BY DEF Told
    <3>2. CASE e.type = "incident.assigned"
      <4>1. /\ assignments'[i] = [analyst |-> e.analyst, by |-> e.by, version |-> e.version]
            /\ assignments'[i].version = e.version /\ e.version = VersionOf(i)'
            /\ e.version = incidents[i].version + 1 /\ incidents[i].version \in Nat \ {0}
        BY <1>0, <1>2, <3>2 DEF Announced, TypeOK, Row
      <4>2. AssignmentTold(Append(s, e), [analyst |-> e.analyst, by |-> e.by, version |-> e.version])
        BY <1>0, <3>1, <3>2, AssignmentsGrow
      <4>3. assignments'[i].version \in 2..VersionOf(i)'
        BY <4>1
      <4> QED
        BY <4>1, <4>2, <4>3
    <3>3. CASE e.type # "incident.assigned"
      <4>1. assignments'[i] = assignments[i] /\ VersionOf(i) <= VersionOf(i)'
        <5>1. assignments'[i] = assignments[i]
          BY <1>2, <3>3 DEF Announced
        <5>2. \/ incidents'[i] = incidents[i]
              \/ incidents[i] = None
              \/ incidents[i] # None /\ incidents'[i] # None
                 /\ incidents'[i].version = incidents[i].version + 1
          BY <1>2, <3>3 DEF Announced
        <5>3. incidents'[i] = incidents[i] => VersionOf(i)' = VersionOf(i)
          BY DEF VersionOf
        <5> QED
          BY <1>0, <5>1, <5>2, <5>3
      <4>2. AssignmentTold(Append(s, e), assignments[i])
        BY <1>0, <3>1, <3>3, AssignmentsGrow
      <4>3. assignments[i] # None => assignments[i].version \in 2..VersionOf(i)'
        BY <1>0, <3>1, <4>1
      <4> QED
        BY <4>1, <4>2, <4>3
    <3> QED
      BY <3>2, <3>3
  <2>4. ASSUME NEW g \in Geofences
        PROVE  CorrelationTold(Append(s, e), g, correlations'[i][g])
    <3>1. CorrelationTold(s, g, correlations[i][g])
      BY DEF Told
    <3>2. CASE IsCorrelation(e, g)
      <4>1. correlations[i][g] = None /\ correlations'[i][g] = e.evidence
        BY <1>2, <3>2 DEF Announced, IsCorrelation
      <4>2. ASSUME NEW k \in DOMAIN s
            PROVE  ~IsCorrelation(s[k], g)
        <5>1. s[k] \in Event
          BY <1>0
        <5>2. s[k].type = "incident.spatial_correlated" => s[k].evidence \in Evidences
          BY <5>1 DEF Event, StatusEvent, AssignedEvent, CorrelatedEvent
        <5> QED
          BY <3>1, <4>1, <5>2, NoneAssumption DEF CorrelationTold, IsCorrelation
      <4>3. CorrelationTold(Append(s, e), g, e.evidence)
        BY <1>0, <3>1, <3>2, <4>2, CorrelationsGrow
      <4> QED
        BY <4>1, <4>3
    <3>3. CASE ~IsCorrelation(e, g)
      <4>1. correlations'[i][g] = correlations[i][g]
        BY <1>2, <3>3 DEF Announced, IsCorrelation
      <4>2. CorrelationTold(Append(s, e), g, correlations[i][g])
        BY <1>0, <3>1, <3>3, CorrelationsGrow
      <4> QED
        BY <4>1, <4>2
    <3> QED
      BY <3>2, <3>3
  <2> QED
    BY <2>0, <2>1, <2>2, <2>3, <2>4 DEF Told
<1> QED
  BY <1>1, <1>2 DEF StepTells

\* The outbox tells every incident's history (store.go Create, Transition,
\* Assign, Correlate): versions without gap or repetition, statuses along the
\* edges of the life cycle, the assignment last announced, each correlation once.
THEOREM OutboxIsHistory == Spec => []OutboxTellsHistory
<1> DEFINE J == IInv /\ \A i \in IncidentIDs : Told(i)
<1>1. Init => J
  <2> SUFFICES ASSUME Init PROVE \A i \in IncidentIDs : Told(i)
    BY InitTypeOK DEF IInv, Init, SnapshotInv
  <2> TAKE i \in IncidentIDs
  <2>1. outbox[i] = <<>> /\ VersionOf(i) = 0 /\ assignments[i] = None
        /\ \A g \in Geofences : correlations[i][g] = None
    BY DEF Init, VersionOf
  <2>2. DOMAIN outbox[i] = {}
    BY <2>1
  <2> QED
    BY <2>1, <2>2 DEF Told, VersionsTold, StatusesTold, AssignmentTold, CorrelationTold
<1>2. J /\ [Next]_vars => J'
  <2> SUFFICES ASSUME IInv, \A i \in IncidentIDs : Told(i), [Next]_vars
               PROVE  J'
    OBVIOUS
  <2>1. IInv' /\ TypeOK /\ TypeOK'
    BY NextTypeOK, NextSnapshot DEF IInv
  <2>2. ASSUME NEW i \in IncidentIDs PROVE Told(i)'
    BY <2>1, NextTells, TellsKeepsTold
  <2> QED
    BY <2>1, <2>2
<1>3. J => OutboxTellsHistory
  BY HistoryParts
<1> HIDE DEF J
<1> QED
  BY <1>1, <1>2, <1>3, PTL DEF Spec
=============================================================================
