# A TLA+ model of the maritime-intelligence service

This directory holds TLA+ specifications of the Go service in `src/`: incidents
and casework, outbox delivery, signed feeds, vessel-track fusion, the outcome
ledger, the response workflow with the consumer that starts it, and the way of a
request through authentication, the connection pool and a stop of the process. TLC
checks them on small instances; TLAPS proves their safety properties for every
instance, all but two. `PROJECT.json` lists runs, properties,
source lines, findings and hazards in machine-readable form.

## 1. Inventory

| Component | State | Operations | Interacts with |
|---|---|---|---|
| Incident store (`internal/incident/store.go`, `internal/server/server.go`) | `maritime_incidents`, assignments, spatial correlations, incident outbox | Create, Transition, Correlate, Assign | called by concurrent HTTP handlers; its outbox rows are delivered by the publisher |
| Outbox publisher (`cmd/maritime-intelligence-outbox-publisher`, `incident/outbox.go`, `isr/isr_outbox.go`) | claim, lease, attempts and publication of each row | claim, write to Kafka, mark published, mark failed | several publishers share the tables |
| Feed trust (`internal/incident/feed.go`, `internal/isr/store.go`) | sources, prior keys, revocations, retained events and detections | register, revoke, rotate, admit event, incident or detection | creates incidents; hands detections to fusion |
| Track fusion (`internal/tracks`, `server/isr_handlers.go`) | in-memory engine, track rows, associations, anomalies | Ingest, RecordFusion, ScanDarkVessels, Replay | fed after a durable admission; rebuilt at startup |
| Outcome ledger (`internal/ledger`) | proposals, entries, outbox row, TigerBeetle transfers | Propose, Confirm | TigerBeetle, outside the transaction |
| ISR response workflow (`internal/workflow`, `cmd/isr-worker`) | Temporal workflow state, audit rows | four signals, two activities | started by the CV consumer |
| CV consumer (`internal/cvconsumer`, `cmd/cv-consumer`) | Kafka offsets, loaded keys, its own engine | fetch, verify, ingest, start workflow, commit | Kafka, Temporal; several replicas form one group |
| Provenance (`internal/provenance`) | key directory, loaded once | sign, verify | the consumer's admission |
| Authentication (`server/auth.go`) | JWKS cache and its age | Authenticate, loadKeys | Keycloak's realm; shared by all handlers |
| Access policy (`isr/access.go`) | none | role and clearance checks, clearance-filtered listings | every handler; reads what feeds and fusion retained |
| Process (`cmd/maritime-intelligence`) | connection pool, HTTP server | serve, stop, start | all stores share the pool |
| Geometry, telemetry, seed | none | conversions, export, data loading | |

What makes the code hard:

- *reads outside transactions*: `Transition` reads and later updates under a version
  check, and a refused `Assign` diagnoses itself from a later read;
- *leases*: a publisher may outlive its lease, die between write and mark, or have a
  clock that disagrees with the database's;
- *two stores*: a ledger confirmation posts to TigerBeetle in the middle of a
  database transaction; fusion changes memory before it writes tables;
- *restarts*: the engine is rebuilt from the persisted associations only;
- *long histories of keys and revocations*, each step legal by itself;
- *at-least-once machinery*: Kafka redelivers and rebalances, Temporal repeats
  activities, and offsets, runs and audit rows have to agree all the same;
- *shared caches and pools*: concurrent JWKS answers overtake each other, a refused
  `Assign` wants a second connection, and the pool is closed under running handlers.

The properties that make each part correct are in section 3; the hazards they are
for, line by line, are in `PROJECT.json`.

## 2. Modules

| Module | Models | Checked through |
|---|---|---|
| `IncidentModel` | statuses, `ValidTransition`, `Matches` | (extended) |
| `IncidentLifecycle` | abstract specification: what the store promises | `incident`, theorem `StoreRefinesLifecycle` |
| `IncidentStore` | the store and its handlers | `MCIncidentStore` |
| `IncidentStoreProofs` | theorems about `IncidentStore` | TLAPS |
| `OutboxDelivery` | both outboxes' delivery protocol | `MCOutboxDelivery`, `OutboxDeliveryProofs` |
| `OutcomeLedger` | dual-control ledger and TigerBeetle | `MCOutcomeLedger`, `OutcomeLedgerProofs` |
| `FeedTrust` | feed sources, rotation, revocation, admission | `MCFeedTrust`, `FeedTrustProofs` |
| `AccessPolicy` | roles, clearances, clearance-filtered listings | `MCTrackFusion`, `MCRequestPath` |
| `TrackFusion` | engine, tables, scanner, handler, replay, listings | `MCTrackFusion`, `TrackFusionProofs` |
| `ResponseLifecycle` | abstract specification: what the response rail promises | `response`, theorem `ImplementsLifecycle` |
| `ISRResponse` | the response workflow, its signals and activities | `MCCvConsumer`, `ISRResponseProofs` |
| `Provenance` | signatures over envelopes, the key directory | `MCCvConsumer` |
| `CvConsumer` | the consumer group, composed with `ISRResponse` and `Provenance` | `MCCvConsumer`, `CvConsumerProofs` |
| `RequestPath` | key cache, gates, pool, stop and start of the service | `MCRequestPath`, `RequestPathProofs` |

A single database transaction is one step. Where the code leaves a transaction or a
mutex and comes back, the model takes two steps and everything else may happen in
between. Names follow the source. Definitions whose comment starts with *Faulty
variant* are not part of any specification: each is what a plausible slip in the
code would make of the definition below it, and the property named for it in
`PROJECT.json` must notice the difference.

### IncidentStore

`incidents`, `assignments`, `correlations` and `outbox` are the tables; `call` is what
a two-step call has read; `lastReply` is the answer given by the last step.

- `Create` splits as the code does: insert, exact replay or conflict, duplicate
  identifier.
- `TransitionRead` is the `Get` and the two checks before the transaction;
  `TransitionUpdate`, `TransitionLost` and `TransitionAborted` are its end.
- `AssignUpdate` is the successful transaction. `AssignMiss` is the update that
  matches no row and `AssignDiagnose` the later read that chooses the reply.
- A commit whose acknowledgement is lost has the effect of a success and no reply,
  which a reader of the tables cannot tell from a success whose reply nobody used;
  properties about replies are about replies that were given.

### OutboxDelivery

Time is kept in timers (`delay` to `available_at`, `age` since `claimed_at`), so that
behaviours are unbounded with finitely many states. Each publisher has a clock skew,
because the claim compares the database's `claimed_at` with the publisher's clock.
`MarkRefused` is a mark that finds the claim gone or whose statement fails. A claim
whose commit acknowledgement is lost reaches the same states as a claim followed by a
failed write and a refused mark. A graceful shutdown in the middle of a write is a
`Crash` followed by a `Restart`.

### OutcomeLedger

`ConfirmLock` is the `SELECT ... FOR UPDATE` with its checks; `PostOutcome` and
`PostOutcomeFails` the TigerBeetle call, `LateTransfer` a request that arrives after
its sender gave up; `ConfirmCommit` the rest of the transaction, guarded by the
outbox table's CHECK on the label; `ConfirmAborted` every other end of it.
TigerBeetle is external: it accepts a transfer once per identifier.

### FeedTrust

Every operation is a serializable transaction, hence a step, except that
`RotateFeedSourceKey` reads the clock and validates the grace deadline first
(`RotateBegin`, `RotateCommit`). Refused and repeated operations stutter.

### TrackFusion

`process` is down, replaying or serving; `engine` is the in-memory state (empty while
the process is down), `pending` the associations that a replay has still to take, and
`call` the admissions in progress: *admitted* (retained, not fused), *fused* (after `Ingest`),
*snapshot* (after `Track`). `Associate`, `AbsorbPoint`, `RuleState`, `Alerts` and
`Alerted` are the parts of `Ingest` in their order; ties and the order of rendezvous
follow Go's map iteration and are nondeterministic. `Restart` is the start of the
process with an empty engine, `ReplayNext` replays one association in the query's order
(`ReplayOrder`), and `Serve` opens the server and the scanner when none is left. Nothing
reads the engine before, so that the replay is cut into steps only for the proofs; a
crash may come between any two of them. `Rebuilt` is the same replay at once, a fold,
for `RebuiltMatches` to compare with. Positions are points on a line and zones
are sets of positions: the rules use only distances and membership. `PointCap` stands
for 4096. `observed_at` is not tied to the clock, as in the code. `ListTracks` and
`Listed` are what a principal gets to see of the engine and of the anomalies.

### ISRResponse and ResponseLifecycle

`runs` holds the executions of each workflow ID, `inbox` the signals Temporal keeps for
the open one, `outbox` the rows activities inserted and `late` the inserts of attempts
that Temporal gave up and that the database may still carry out. Temporal replays the
workflow code, so the workflow is one step from one blocking call to the next:
`ReceiveSignal` takes a signal and fails the run or schedules an activity,
`AppendOutbox`, `AttemptFails` and `LateInsert` are what attempts do, and
`ActivityCompletes` continues after `Get`. Every attempt inserts under a fresh
`event_id`, so a row is told apart by its attempt. `ResponseLifecycle` has only the
responses with their decisions and gates; the mapping `responsesBar` takes a run's
history for its trail.

### CvConsumer and Provenance

A replica runs one loop per topic. `FetchMessage` hands out the record after
`position`, the handlers are one step each (verification, engine, `StartISR`), and
`CommitMessages` puts the group's offset. A failed handler leaves the offset alone and
the loop goes on. `StartISRFails` is a call of Temporal that fails before or after the
workflow was started. `Rebalance` gives the partitions to live replicas from the
committed offsets on; a replica that lost a partition still finishes the record in
hand, and its commit counts. `Crash` loses engine, keys and records in hand; `Start`
reads whatever key directory is mounted at the time. `handled` and `failed` are history
variables for the properties. Ingest never raises a dark-vessel anomaly, so
`HandleVesselDetection` starts no workflow.

### RequestPath and AccessPolicy

A request is *idle*, *fetching* (inside `loadKeys`), *loaded* (before the second look
into the cache), *admitted* (waits for a connection), *holding* one, or waiting for a
*second* one, as a refused `Assign` does inside its transaction. `Fresh` is the first
look of `key`; `LoadKeys` stores the document that was fetched, however old. `gone`
counts the time since the realm withdrew a key. `Stop` is SIGTERM: `ListenAndServe`
returns when `Shutdown` begins, so `store.Close` runs under the handlers (*closing*),
and `Exit` waits for every connection. The JWKS request has no request context: only
its own timeout ends it.

## 3. Runs

Passing runs check for deadlock, except those of `MCCvConsumer`, where the bounded log
is consumed and the responses end.

| Run | Question | Properties |
|---|---|---|
| `incident` | Do racing handlers keep tables, outbox and replies consistent and implement the life cycle? | `TypeOK`, `OutboxTellsHistory`, `ConfirmedAtExpectedVersion`, `TransitionConflictIsReal`, `AssignRefusalIsTruthful`, `ClosedIsFinal`, `CaseworkIsAtomic` |
| `outbox_safety` | At least once, leases, finality | `TypeOK`, `PublishedWasDelivered`, `ClaimHeldForLease`, `PublishedIsFinal` |
| `outbox_liveness` | Does every row get out, behind a poison row? | `EventuallyPublished` |
| `ledger` | Complete entries, one transfer, two principals; is a posted transfer recorded in the end? | `TypeOK`, `ConfirmationIsComplete`, `TransfersMatchProposals`, `TransferNeedsSecondPrincipal`, `TermsAreImmutable`, `ClassifiedPostedIsRecorded` |
| `feed` | Is evidence traceable, announced once, and inert after revocation? | `TypeOK`, `EvidenceIsTraceable`, `DetectionAnnouncedOnce`, `InactiveSourceIsInert` |
| `fusion_identity` | One track per vessel, across races and restarts? | `TypeOK`, `OneTrackPerVessel`, `AssociationsAreInEngine` |
| `fusion_rules` | Are alerts, replay and listings consistent with what was seen? | `AnnouncedOnce`, `RebuiltMatches`, `ProximityIsTrue`, `ReadsAreCleared`, `DarkAlertIsTrue` |
| `response` | Does every response walk the life cycle, with an audit trail that agrees, whatever signals and retries do? | `AuditTrailMatches`, `ResponseIsLifecycle`, `SignalIsActedOn` |
| `cv_admission` | Do responses stand on records that the keys of the replica starting them verify, and is every record tried, over crashes and rebalances? | `RunIsAdmitted`, `CommitAccountsForRecord`, `EveryRecordTried` |
| `requests` | Do withdrawn keys expire, published ones get in, and requests and stops end? | `TypeOK`, `WithdrawnKeyExpires`, `PublishedKeyIsAccepted`, `RequestsEnd` |

What the newer runs show of the code: a key the realm withdrew is accepted for at most
the cache's five minutes plus the ten seconds of a JWKS request, and that bound is met;
with every connection held by refused assignments nothing goes on until a caller hangs
up, and then everything does; a record is never passed over untried, whichever replica
commits; the audit rows of a response may be repeated and late, but never of a
transition it did not take.

Two runs show a disagreement between what the repository says and what the code does
(each with its quotation in `PROJECT.json`, `findings`):

| Run | What the counterexample shows |
|---|---|
| `ledger_unclassified` | An UNCLASSIFIED outcome is posted to TigerBeetle; its outbox row carries `INTERNAL`, which the CHECK refuses every time. |
| `cv_skip` | A record whose handler failed is passed over for good once the next one is committed. |

The models have further behaviours that differ from what comments say. No run is kept
for them; the properties above are stated so that they hold beside them:

- the outbox row of a SECRET outcome carries the envelope's label and not the record's
  clearance (`ledger/store.go:193`; compare `tracks/store.go:153`);
- after a second rotation the first prior key is refused before its deadline, because
  only the latest prior key is tried (`feed.go:274`; `openapi.yaml:193`);
- two rendezvous completed by one detection share an `anomaly_id` and one is dropped
  (`fusion.go:419`; `tracks/store.go:26`);
- a late AIS report moves the last-AIS marker back, and a scan may then alert on a
  vessel that reports (`fusion.go:288`; the proviso of `DarkAlertIsTrue`);
- a detection admitted before a crash, or whose recording failed, is not fused after
  the restart (`isr_handlers.go:65-68`);
- a dark-vessel alert whose write failed is not raised again (`scanner.go:19-21`, `69`);
- registering a revoked source again with its key and `active` makes it active again
  (`feed.go:149`; `feed.go:304` calls the revocation irreversible);
- an AIS report whose own `mmsi` is empty joins another vessel's track, because
  `Validate` has a value receiver and its assignment is lost (`isr/events.go:231`;
  `README.md:42`); hence the first proviso of `OneTrackPerVessel`, that payloads agree;
- a detection whose own MMSI differs from its AIS payload's passes `Validate`
  (`isr/events.go:198-283`). `Ingest` opens its track under the own MMSI
  (`fusion.go:406-409`) and `Replay` under the payload's (`fusion.go:259-263`,
  `289-291`), so that the MMSI of a track and the index differ after a restart, against
  `fusion.go:233-238`; hence the proviso of `RebuiltMatches` about the MMSI, and the
  crash-free clause of `OneTrackPerVessel`. Both kinds of report are in the instances;
- two handlers that record their snapshots in the other order leave a track row labelled
  below one of its detections (`tracks/store.go:44`; `0008_vessel_tracks.sql:2`); the
  listing of tracks reads the engine and is not affected;
- a dark-vessel record that is redelivered after its response closed starts a second one
  (`cmd/cv-consumer/main.go:66`; `cvconsumer.go:15-16` and `48-50`: one instance per
  anomaly);
- the consumer's anomalies are logged and not persisted (`main.go:77-86`;
  `cvconsumer.go:14`), and no detection starts a response, because only the scanner
  raises dark-vessel anomalies and the consumer runs none (`cvconsumer.go:11-13`);
- audit and outcome rows of a response carry RESTRICTED whatever the label of the alert
  (`cmd/isr-worker/main.go:81`);
- records without `eventId` share one workflow ID (`cvconsumer.go:314`);
- an `insurer-aggregator` that holds a reader role besides reads tracks (`access.go:91`;
  the comment at `access.go:78-79` denies it regardless of clearance).

### Bounds

- *Incidents*: one incident and two handlers are enough for every race between two
  calls on a row, since rows are independent but for the source-event uniqueness,
  which `OneIncidentPerSource` proves for any number of them. `AssignedVersions` lets
  assignments succeed right after the creation and at the version at which an incident
  can already be closed; `MaxAhead` is how far a caller guesses ahead.
- *Outbox*: two rows and two publishers, lease 3 with skew 1, attempts that may last
  longer than the lease, one crash. Larger attempt counts behave as `AttemptClamp`.
- *Ledger*: one entry (entries share no row and no transfer identifier), three
  principals, two handlers, quantities 0 to 2 and two labels.
- *Feeds*: one source with two keys and two overlapping rotations; two rotations are
  the fewest that bring a key back. Sources share only the detections' `event_id`,
  which two detection names of one source exercise as well.
- *Fusion*: three detections with two handlers and two crashes for identity (three
  are needed for a tie between two tracks, and one more than `PointCap` keeps; the
  second crash may interrupt the replay after the first); three detections of two
  vessels at two instants with one handler, the scanner and two crashes for the rules:
  two make a rendezvous and the third meets the latch, and a classified sighting raises
  labels. Both instances have AIS reports without an MMSI of their own and reports whose
  own MMSI contradicts the payload's, besides the ordinary ones.
- *Response*: one alert, one run of either label, two pending signals, so that a signal
  may be early or repeated; activities fail any number of times and one insert may be
  late. `MaxAttempts` is 1: rows that differ only in the attempt count as one, which
  `AuditTrailMatches` allows because it asks which transitions have rows, not how many.
- *Consumer*: two replicas, records of both topics that are admissible or wrong in
  each way `verify` and the handlers know, one crash or rebalance beyond the first
  assignment, two runs of the workflow. The exact numbers are in the cfg files.
- *Requests*: clients with different keys and operations, two keys, a freshness of two
  ticks, a JWKS timeout of one, a pool smaller than what the refused assignments want,
  one stop. Ages beyond `TTL + FetchLimit` are not told apart.

Symmetry is used where a set's values are interchangeable and no liveness is checked.

### Fairness

- *Outbox*: idle publishers poll (a ticker drives `loop`), attempts end (the write has
  a 10 s timeout), crashed publishers are started again, and a write or a mark that
  is tried again and again succeeds for a row that is not poison. The run assumes that
  attempts end within the lease and that publishers poll more often than back-offs
  expire (`PromptPolling`). Without the second assumption the poison row is always
  available when somebody polls and starves the younger one; with attempts longer than
  the lease two publishers can take the claim from each other for ever. Both are real
  limits of the code's configuration (`OUTBOX_LEASE`, `OUTBOX_MAX_BACKOFF`,
  `OUTBOX_POLL_INTERVAL`).
- *Ledger*: callers repeat the confirmation until it succeeds, steps end, and none
  fails for ever.
- *Response*: workers poll and the database is not unavailable for ever, so an activity
  that Temporal repeats without limit (the default retry policy, `workflow/isr.go:142`)
  succeeds; users need not send signals.
- *Consumer*: processes are restarted, the group assigns a partition without owner to
  a live replica, and a loop goes on while its process lives. Producers need not produce.
- *Requests*: callers repeat their requests and hang up in the end, the realm is not
  unreachable for ever, the service does what it can do. Hanging up is needed: without
  it refused assignments hold the pool for ever, because no database call has a
  timeout of its own.
- *Feeds and fusion* have no liveness property, hence no fairness: the code promises
  no progress there beyond answering a request.

## 4. Proofs

The theorems hold for every value of the constants that meets the assumptions named in
the component's module. These say that bounds and durations are natural numbers, that
tables of constants have their shape, and that `None` is none of the values it stands
beside. Some say more about the code: the attempts are clamped at 30 at most, as
`backoff` does, and each clock is off by at most `MaxSkew` (`OutboxDelivery`); the
signals users send have the fields of a signal (`ISRResponse`); what producers publish
is an envelope about one of the alerts, and a label that is mapped maps to one of the
levels (`CvConsumer`); a zone is a set of positions and the dark-vessel gap is not
negative (`TrackFusion`). No theorem has a
hypothesis about what the feeds send or how many handlers run: where a promise depends
on what was received, the dependence is part of the property.

Most proofs have the same shape: `Inductive` proves `Spec => []IInv`, where `IInv` is the
type invariant with the strengthening below; the other theorems follow from `IInv`
alone, or from `IInv` and one step. Fusion has one invariant per theorem, each on top
of the ones before it. Every strengthening was also model-checked on the runs'
instances.

| Module | Theorem | States, for every instance |
|---|---|---|
| `IncidentStoreProofs` | `TypeCorrect` | `TypeOK` |
| | `ConfirmedAtExpected` | a confirmed change was made at the quoted version |
| | `ConflictIsReal` | a reported conflict met another version |
| | `RefusalIsTruthful` | an assignment refused as invalid met a closed incident |
| | `ClosedStaysClosed` | a closed incident and its assignment never change |
| | `OneIncidentPerSource` | one incident per source event |
| | `StoreRefinesLifecycle` | the store implements `IncidentLifecycle` |
| | `OutboxIsHistory` | the outbox tells each incident's history |
| `OutboxDeliveryProofs` | `TypeCorrect` | `TypeOK` |
| | `AtLeastOnce` | what is stamped published was delivered |
| | `LeaseProtects` | no claim is lost within its lease |
| | `PublicationIsFinal` | a published row never changes |
| `OutcomeLedgerProofs` | `TypeCorrect` | `TypeOK` |
| | `CompleteOrAbsent` | a confirmation has all its parts or none |
| | `NoDoubleTransfer` | one transfer per proposal, of its quantity |
| | `DualControl` | two principals behind every transfer |
| | `TermsNeverChange` | what was proposed or confirmed never changes |
| `FeedTrustProofs` | `TypeCorrect` | `TypeOK` |
| | `EvidenceStaysTraceable` | evidence leads to a key on record |
| | `AnnouncedExactlyOnce` | a detection is announced once |
| | `InactiveStaysInert` | an inactive source admits nothing and keeps its key |
| `RequestPathProofs` | `TypeCorrect` | `TypeOK` |
| | `WithdrawalTakesEffect` | a withdrawn key is refused after `TTL + FetchLimit` |
| `CvConsumerProofs` | `TypeCorrect` | `TypeOK` |
| | `FailClosed` | `RunIsAdmitted`: a response starts on a record that its starter's own keys verify |
| | `NoRecordSkipped` | the group's offset steps over no record |
| | `AuditTrailAgrees` | audit rows and workflow history agree |
| | `ImplementsLifecycle` | consumer and rail implement `ResponseLifecycle` |
| `TrackFusionProofs` | `FusionTypeCorrect` | `TypeOK` |
| | `RecordedIsFused` | a recorded association is in the engine, in its track |
| | `VesselsKeepTheirTracks` | `OneTrackPerVessel`: index and tracks agree, one track per vessel while payloads agree |
| | `AlertedVesselIsDark` | a dark-vessel alert is true |
| | `ListingsAreCleared` | `ReadsAreCleared`: what is listed is within clearance, for any number of handlers |
| | `BehaviourAnnouncedOnce` | one meeting, one silence is announced once |

What makes them inductive:

- *Incident store.* A call carries what it read some steps ago. `SnapshotInv` says what
  stays true of that snapshot: the row still has the quoted version and then also the
  status that was read, or its version is larger. It is preserved because a row changes
  only together with its version, which only grows (`RowsMove`, `FitsIsStable`). The
  refinement maps the two tables to cases; every step of a call maps to one step of the
  life cycle or to none. `OutboxIsHistory` splits the history of one incident into four
  parts (versions, statuses, assignment, correlations), proves of sequences what one
  more row does to each, and of the steps which row they append.
- *Outbox.* `RowInv`: a claimed row waits for no back-off, a published one has neither
  claim nor timer. `LeaseInv`: an attempt still owns its claim, and then the row's lease
  is as old as the attempt, or the attempt is older than the lease on the fastest clock.
- *Ledger.* `LockInv`: who holds the row lock found the proposal open and of somebody
  else, and is alone. `TransferInv` extends the promises about transfers to the
  requests that are still on their way, `PostedInv` ties a confirmation to its transfer.
- *Feeds.* `TypeOK`, `EvidenceIsTraceable` and `DetectionAnnouncedOnce` are inductive
  together.
- *Requests.* `CacheInv`: no key of the cached document was withdrawn longer ago than the
  document's age plus one timeout, and the same for documents on their way, whose age
  counts from the request to the realm. It needs that a second look follows the store of
  its document without delay (`age = 0`).
- *Consumer and rail.* `RailInv` (`ISRResponseProofs`, with the lemmas about each step of
  the rail): the state of a run is where its history ends, the activity under way is a
  decision through its gate, its row is written before the state moves, and no row, not
  even a late one, says more than its run. `OffsetInv`: whatever the group's offset
  covers is accounted for, so is what the owner's reader handed out but for the record
  in the owner's hand, and so is all that precedes a record in *anybody's* hand. The last
  part is what makes the commit of a former owner harmless. For the refinement
  (`responsesBar`) a step of the rail leaves the runs alone or continues the current run
  of one alert (`RunMoves`), which is a decision, a failure or a stutter.
- *Fusion.* Ingest and the replay both add one detection to one track. `Fused` says what
  that does to the engine, whichever of the two did it, and `IngestStep`, `ReplayStep`,
  `Scanned` and `RecordStep` what a whole step does; the invariants are proved from
  these alone. `Core` (`TableInv`, `EngineInv`, `CallInv`) is the type invariant with
  the calls: the engine is empty when the process is down, a fused detection's track is
  there, and a batch is well formed. `SeatInv` follows a detection: it is awaited,
  fused or recorded by one handler at most (`DetectionInv`); what is fused, or
  recorded and not pending, sits in its track or was dropped from a full one
  (`HeldInv`); a point sits in one track, and one that a replayed engine holds was
  recorded there (`PointInv`). `IndexInv` holds whatever the
  payloads say: the index names a track that carries the MMSI and knows every MMSI
  that a track carries; and until the first crash a detection that names a vessel sits
  in a track of that vessel or of the one in its payload. `VesselInv`, under the
  premise that all payloads retained so far agree (`Agreed => VesselInv`; a state that
  agrees was reached through states that agree, `AgreedBefore`): index and tracks name
  each other, what was fused or recorded of a vessel is in the index, and recorded
  detections share a track exactly if they name one vessel. The last part is what a
  replay needs, which sees the detections in another order than the fusion did.
  `ReportInv` ties `lastAISAt` to the last report among the points, or to none left.
  `CoverInv`: a track's label covers its points and all that is recorded under it, an
  anomaly's label what raised it. That an anomaly covers both its vessels is a fact
  about the step that raises it (`RaisedStep`): a later recording of an older detection
  may exceed it, and no label is revised. `LatchInv` and `MeetingCount`: a meeting in a
  batch that is on its way is latched on both tracks and in no other batch, so that a
  pair which may still announce itself has announced at most as often as the process
  crashed. `SilenceInv` is a potential: the alerts of a track that are recorded, waiting
  in the scanner, or still possible are at most the crashes and the AIS reports taken so
  far.

Only model-checked:

- liveness and everything under fairness (`EventuallyPublished`,
  `ClassifiedPostedIsRecorded`, `EveryRecordTried`, `SignalIsActedOn`,
  `PublishedKeyIsAccepted`, `RequestsEnd`): the prover does not treat fairness;
- `RebuiltMatches`: it compares the engine with `Rebuilt`, a fold over a sorted sequence,
  and what a fold computes takes an induction over data that the provers cannot carry
  out;
- `ProximityIsTrue`: it judges a meeting by all points of two tracks, and is about one
  handler, detections in the order of observation and tracks that dropped no point.

Proved only: `OneIncidentPerSource` (the run's instance has one incident) and
`CvConsumerProofs`' `TypeCorrect`.

## 5. Not modelled

Field validation that only accepts or refuses a request, floating-point geometry,
cryptography and encodings (a signature is the key and what it covers; canonical JSON,
base64 and JWT parsing are conversions on strings), the loopback authenticator (no
state), logging, metrics and tracing, seeding, migrations, configuration and the wiring
at start-up, and reads without effect such as the outcome aggregates. The fusion
model leaves out detections without position, which never reach the engine. The CV
consumer's engine is kept as the set of sightings it took: it is neither persisted nor
read, so a redelivered record that is ingested twice has no consequence. `RequestPath`
takes a handler's work for a use of the pool that ends when its caller hangs up; a
`Confirm` that is blocked in a TigerBeetle call, which takes no context, lies outside of
it, and `RequestsEnd` says nothing of it.

## 6. Plan

Done: every component of section 1 that keeps state, model-checked and proved. What a
further step could add, in this order: `RebuiltMatches` restated as an invariant of the
steps of a replay (the engine so far is the one the process had when it had fused what
is replayed so far), which would bring it within the prover's reach at the price of a
history variable; and with the same variable the proximity of two tracks.
