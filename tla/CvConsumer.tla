---------------------------- MODULE CvConsumer ----------------------------
(***************************************************************************)
(* cmd/cv-consumer and internal/cvconsumer, composed with the response     *)
(* rail of ISRResponse that they start.  Replicas form one Kafka consumer  *)
(* group over two topics of one partition each (more partitions would be   *)
(* more loops of the same kind).  A process runs one loop per topic: fetch *)
(* the next record, handle it, commit its offset; a record whose handler   *)
(* failed is logged and not committed, and the loop goes on to the next.   *)
(*                                                                         *)
(* Kafka is modelled from how the loop uses it: FetchMessage hands out the *)
(* records of a partition in order from where the reader was positioned,   *)
(* a rebalance positions the new owner at the committed offset, and a      *)
(* commit puts that offset wherever the group's offset was, also when it   *)
(* comes from a replica that lost the partition meanwhile.                 *)
(***************************************************************************)
EXTENDS ISRResponse
LOCAL INSTANCE Functions

CONSTANTS
    Replicas,      \* processes of cmd/cv-consumer
    Documents,     \* contents of the key directory document over time: sets of kids
    Envelopes,     \* per topic, the records producers publish
    MaxLog,        \* bound: records published
    MaxFaults,     \* bound: crashes and rebalances without a cause
    Unsigned       \* see Provenance

INSTANCE Provenance

VARIABLES
    log,           \* per topic the records of its partition, offsets from 1
    committed,     \* per topic the group's offset: records consumed so far
    owner,         \* per topic the replica the partition is assigned to
    position,      \* per topic the last offset the owner's reader handed out
    loop,          \* per replica and topic the record in hand
    directory,     \* per replica the keys it loaded when it started, {} when down
    engine,        \* per replica the sightings in its fusion engine
    handled,       \* history: topic and offset of the records handled
    failed,        \* history: topic and offset of the records whose handler failed
    faults         \* how many faults there have been

consumer ==
    <<log, committed, owner, position, loop, directory, engine, handled, failed, faults>>
vars == <<rail, consumer>>

Topics == {"vessel", "dark"}
Up(c) == directory[c] # {}

\* classificationFromEnvelope: labels without an entry are refused.
classificationFromEnvelope ==
    [label \in {"PUBLIC", "INTERNAL", "RESTRICTED", "CONFIDENTIAL", "FIDUCIARY_SEGREGATED"} |->
        CASE label \in {"PUBLIC", "INTERNAL"} -> 0
          [] label = "RESTRICTED" -> 1
          [] label \in {"CONFIDENTIAL", "FIDUCIARY_SEGREGATED"} -> 2]

Content ==
    [event : Alerts, type : Topics, label : STRING, bundle : BOOLEAN, payload : BOOLEAN]

\* A record in hand: its offset, and whether its handler returned nil.
Hand == [offset : Nat, step : {"fetched", "handled"}]

ASSUME ConsumerAssumption ==
    /\ \A t \in Topics : \A e \in Envelopes[t] :
          /\ e.content \in Content
          /\ e.content.label \in DOMAIN classificationFromEnvelope
                => classificationFromEnvelope[e.content.label] \in Levels
    /\ MaxLog \in Nat /\ MaxFaults \in Nat
    /\ None \notin Replicas /\ None \notin Hand

TypeOK ==
    /\ RailTypeOK
    /\ \A t \in Topics :
          /\ \A o \in DOMAIN log[t] : log[t][o] \in Envelopes[t]
          /\ committed[t] \in 0..Len(log[t]) /\ position[t] \in 0..Len(log[t])
          /\ owner[t] \in Replicas \cup {None}
          /\ \A c \in Replicas :
                loop[c][t] \in [offset : DOMAIN log[t], step : {"fetched", "handled"}] \cup {None}
    /\ \A c \in Replicas :
          /\ directory[c] \in Documents \cup {{}} /\ engine[c] \subseteq Alerts
          /\ ~Up(c) => engine[c] = {} /\ \A t \in Topics : loop[c][t] = None
    /\ faults \in 0..MaxFaults

Init ==
    /\ RailInit
    /\ log = [t \in Topics |-> <<>>]
    /\ committed = [t \in Topics |-> 0]
    /\ owner = [t \in Topics |-> None]
    /\ position = [t \in Topics |-> 0]
    /\ loop = [c \in Replicas |-> [t \in Topics |-> None]]
    /\ directory = [c \in Replicas |-> {}]
    /\ engine = [c \in Replicas |-> {}]
    /\ handled = {}
    /\ failed = {}
    /\ faults = 0

-----------------------------------------------------------------------------
(* The surroundings                                                        *)

Produce(t, envelope) ==
    /\ SumFunction([u \in Topics |-> Len(log[u])]) < MaxLog
    /\ log' = [log EXCEPT ![t] = Append(@, envelope)]
    /\ UNCHANGED <<rail, committed, owner, position, loop, directory, engine,
                   handled, failed, faults>>

\* The readers of all replicas are one group: whoever joins or leaves it, every
\* partition is assigned anew and its reader starts at the committed offset.
Rebalance(assignment) ==
    /\ \A t \in Topics : Up(assignment[t])
    /\ faults' = IF None \in Range(owner) THEN faults ELSE faults + 1
    /\ faults' <= MaxFaults
    /\ owner' = assignment
    /\ position' = committed
    /\ UNCHANGED <<rail, log, committed, loop, directory, engine, handled, failed>>

\* The process ends: killed, or because either reader's FetchMessage failed.
\* Records in hand, the engine and the loaded keys are gone.
Crash(c) ==
    /\ Up(c)
    /\ faults < MaxFaults
    /\ faults' = faults + 1
    /\ directory' = [directory EXCEPT ![c] = {}]
    /\ engine' = [engine EXCEPT ![c] = {}]
    /\ loop' = [loop EXCEPT ![c] = [t \in Topics |-> None]]
    /\ owner' = [t \in Topics |-> IF owner[t] = c THEN None ELSE owner[t]]
    /\ UNCHANGED <<rail, log, committed, position, handled, failed>>

-----------------------------------------------------------------------------
(* The process                                                             *)

\* run, up to the loops: the directory is read once, as operations left it by
\* then, and stays what it was when the document is replaced.
Start(c) ==
    /\ ~Up(c)
    /\ \E document \in Documents :
          Loadable(document) /\ directory' = [directory EXCEPT ![c] = document]
    /\ UNCHANGED <<rail, log, committed, owner, position, loop, engine,
                   handled, failed, faults>>

\* Faulty variant: the offset is committed before the record is handled
\* (ReadMessage instead of FetchMessage).
FetchMessageCommitting(c, t) ==
    /\ Up(c) /\ owner[t] = c
    /\ loop[c][t] = None
    /\ position[t] < Len(log[t])
    /\ position' = [position EXCEPT ![t] = @ + 1]
    /\ committed' = [committed EXCEPT ![t] = position[t] + 1]
    /\ loop' = [loop EXCEPT ![c][t] = [offset |-> position[t] + 1, step |-> "fetched"]]
    /\ UNCHANGED <<rail, log, owner, directory, engine, handled, failed, faults>>

FetchMessage(c, t) ==
    /\ Up(c) /\ owner[t] = c
    /\ loop[c][t] = None
    /\ position[t] < Len(log[t])
    /\ position' = [position EXCEPT ![t] = @ + 1]
    /\ loop' = [loop EXCEPT ![c][t] = [offset |-> position[t] + 1, step |-> "fetched"]]
    /\ UNCHANGED <<rail, log, committed, owner, directory, engine,
                   handled, failed, faults>>

Fetched(c, t) == loop[c][t] # None /\ loop[c][t].step = "fetched"
RecordOf(c, t) == log[t][loop[c][t].offset]

\* Faulty variant: the event type is not compared with the topic's.
verifyAnyType(c, topic, envelope) ==
    /\ VerifyEnvelope(directory[c], envelope)
    /\ envelope.content.bundle

\* Consumer.verify: the signature first, then the structure and the type.
verify(c, topic, envelope) ==
    /\ VerifyEnvelope(directory[c], envelope)
    /\ envelope.content.bundle
    /\ envelope.content.type = topic

\* What both handlers check before they act: verify, the label, the resource.
Admitted(c, topic, envelope) ==
    /\ verify(c, topic, envelope)
    /\ envelope.content.label \in DOMAIN classificationFromEnvelope
    /\ envelope.content.payload

\* The handler returned nil.
HandlerSucceeds(c, t) ==
    /\ loop' = [loop EXCEPT ![c][t].step = "handled"]
    /\ handled' = handled \cup {<<t, loop[c][t].offset>>}
    /\ UNCHANGED failed

\* Faulty variant: the goroutine returns when a handler fails.
HandlerFailsReturning(c, t) ==
    /\ loop' = [loop EXCEPT ![c][t].step = "returned"]
    /\ failed' = failed \cup {<<t, loop[c][t].offset>>}
    /\ UNCHANGED handled

\* The handler returned an error: it is logged and the loop continues.
HandlerFails(c, t) ==
    /\ loop' = [loop EXCEPT ![c][t] = None]
    /\ failed' = failed \cup {<<t, loop[c][t].offset>>}
    /\ UNCHANGED handled

\* Either handler refuses the record before it changed anything.
RejectRecord(c, t) ==
    /\ Fetched(c, t)
    /\ ~Admitted(c, t, RecordOf(c, t))
    /\ HandlerFails(c, t)
    /\ UNCHANGED <<rail, log, committed, owner, position, directory, engine, faults>>

\* HandleVesselDetection: the sighting enters this process's engine, whose
\* anomalies are logged.  The engine raises dark-vessel anomalies in its scan
\* only, never in Ingest, so no workflow starts here.
HandleVesselDetection(c) ==
    /\ Fetched(c, "vessel")
    /\ Admitted(c, "vessel", RecordOf(c, "vessel"))
    /\ engine' = [engine EXCEPT ![c] = @ \cup {RecordOf(c, "vessel").content.event}]
    /\ HandlerSucceeds(c, "vessel")
    /\ UNCHANGED <<rail, log, committed, owner, position, directory, faults>>

\* ExecuteWorkflow: Temporal refuses a second open execution of a workflow ID
\* and starts a new one when the last is closed.
ExecuteWorkflow(a, level) ==
    IF Open(a) THEN UNCHANGED runs
    ELSE /\ Len(runs[a]) < MaxRuns
         /\ runs' = [runs EXCEPT ![a] = Append(@, NewRun(level))]

\* HandleDarkVessel: the anomaly is logged and StartISR called.  An execution
\* that is already open counts as success.
HandleDarkVessel(c) ==
    /\ Fetched(c, "dark")
    /\ Admitted(c, "dark", RecordOf(c, "dark"))
    /\ LET content == RecordOf(c, "dark").content
       IN  ExecuteWorkflow(content.event, classificationFromEnvelope[content.label])
    /\ HandlerSucceeds(c, "dark")
    /\ UNCHANGED <<inbox, outbox, late, log, committed, owner, position, directory,
                   engine, faults>>

\* HandleDarkVessel when Temporal is out of reach, or started the workflow and
\* its answer was lost.
StartISRFails(c) ==
    /\ Fetched(c, "dark")
    /\ Admitted(c, "dark", RecordOf(c, "dark"))
    /\ LET content == RecordOf(c, "dark").content
       IN  \/ ExecuteWorkflow(content.event, classificationFromEnvelope[content.label])
           \/ UNCHANGED runs
    /\ HandlerFails(c, "dark")
    /\ UNCHANGED <<inbox, outbox, late, log, committed, owner, position, directory,
                   engine, faults>>

\* CommitMessages; a failed commit is logged and forgotten.
CommitMessages(c, t) ==
    /\ loop[c][t] # None /\ loop[c][t].step = "handled"
    /\ \/ committed' = [committed EXCEPT ![t] = loop[c][t].offset]
       \/ UNCHANGED committed
    /\ loop' = [loop EXCEPT ![c][t] = None]
    /\ UNCHANGED <<rail, log, owner, position, directory, engine, handled, failed, faults>>

-----------------------------------------------------------------------------
Handle(c, t) ==
    \/ RejectRecord(c, t)
    \/ t = "vessel" /\ HandleVesselDetection(c)
    \/ t = "dark" /\ (HandleDarkVessel(c) \/ StartISRFails(c))

Next ==
    \/ \E t \in Topics : \E envelope \in Envelopes[t] : Produce(t, envelope)
    \/ \E assignment \in [Topics -> Replicas] : Rebalance(assignment)
    \/ \E c \in Replicas : Crash(c) \/ Start(c)
    \/ \E c \in Replicas, t \in Topics : FetchMessage(c, t) \/ Handle(c, t) \/ CommitMessages(c, t)
    \/ RailNext /\ UNCHANGED consumer

Spec == Init /\ [][Next]_vars

\* Processes are restarted, the group gives a partition without owner to a
\* live replica, and a loop goes on as long as its process lives.
ConsumerFairness ==
    /\ \A c \in Replicas : WF_vars(Start(c))
    /\ WF_vars(None \in Range(owner) /\ \E assignment \in [Topics -> Replicas] : Rebalance(assignment))
    /\ \A c \in Replicas, t \in Topics :
          WF_vars(FetchMessage(c, t)) /\ WF_vars(Handle(c, t)) /\ WF_vars(CommitMessages(c, t))

FairSpec == Spec /\ ConsumerFairness /\ RailFairness

-----------------------------------------------------------------------------
(* Properties                                                              *)

\* A record that is ground for a response to the alert at that level: one of these
\* keys signed it as it is.
Warrants(envelope, kids, a, level) ==
    /\ envelope.signature # Unsigned
    /\ envelope.signature.kid \in kids
    /\ envelope.signature.over = envelope.content
    /\ envelope.content.event = a /\ envelope.content.type = "dark"
    /\ envelope.content.bundle /\ envelope.content.payload
    /\ envelope.content.label \in DOMAIN classificationFromEnvelope
    /\ level = classificationFromEnvelope[envelope.content.label]

RunStandsOnRecord ==
    \A a \in Alerts : \A n \in DOMAIN runs[a] :
        \E o \in DOMAIN log["dark"] :
            Warrants(log["dark"][o], UNION Documents, a, runs[a][n].level)

\* A response that begins was started by a replica that lets go of such a record,
\* under the keys of its own directory, however old that is.
RunStartedUnderOwnKeys ==
    \A a \in Alerts : \A n \in DOMAIN runs'[a] \ DOMAIN runs[a] :
        \E c \in Replicas :
            /\ Fetched(c, "dark") /\ loop'[c]["dark"] # loop[c]["dark"]
            /\ Warrants(RecordOf(c, "dark"), directory[c], a, runs'[a][n].level)

\* "Admission is fail-closed" (cvconsumer.go:5), whoever handles a record and however
\* often it is redelivered: the replica that starts a response has in hand a
\* dark-vessel record of its event that a key of the directory it loaded itself signed
\* as it is, whatever other replicas loaded before or after a rotation, and the
\* response keeps the label of that record.
RunIsAdmitted == [][RunStartedUnderOwnKeys /\ RunStandsOnRecord']_vars

\* A record the group will not read again was handled, or a handler refused it
\* or failed on it: crashes, rebalances and commits of replicas that lost the
\* partition never step over a record.  A handled dark-vessel record has a response.
CommitAccountsForRecord ==
    /\ \A t \in Topics : \A o \in 1..committed[t] : <<t, o>> \in handled \cup failed
    /\ \A o \in DOMAIN log["dark"] :
          <<"dark", o>> \in handled => runs[log["dark"][o].content.event] # <<>>

\* Every published record is handed to a handler, whatever crashes and however
\* many of the records before it are refused.
EveryRecordTried ==
    \A t \in Topics : \A o \in 1..MaxLog :
        (o \in DOMAIN log[t]) ~> (<<t, o>> \in handled \cup failed)

\* "Rejected/failed records are logged with reason only; the offset is NOT
\* committed so the record is retried" (cmd/cv-consumer/main.go:186): a record
\* the group's offset has passed was handled.
FailedIsRetried ==
    \A t \in Topics : \A o \in 1..committed[t] : <<t, o>> \in handled
=============================================================================
