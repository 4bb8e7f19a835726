--------------------------- MODULE ISRResponse ---------------------------
(***************************************************************************)
(* The ISR response workflow (internal/workflow/isr.go) on Temporal, with  *)
(* the activities of cmd/isr-worker that write its audit trail and outcome *)
(* to the outbox.                                                          *)
(*                                                                         *)
(* Temporal replays the workflow code, so a workflow loses nothing when a  *)
(* worker dies and its code is one step from one blocking call (a signal   *)
(* channel or an activity) to the next.  Activities are not exactly-once:  *)
(* an attempt that fails, times out or loses its worker is repeated, and   *)
(* every attempt inserts a row of its own.                                 *)
(*                                                                         *)
(* A signal is abstracted to whether its mandatory fields are there, what  *)
(* it decides and, for the analyst, the clearance; labels are ranks.       *)
(***************************************************************************)
EXTENDS Integers, Sequences, FiniteSets
LOCAL INSTANCE Functions

CONSTANTS
    Alerts,        \* anomaly identifiers, which are the workflow IDs
    Levels,        \* ranks of the classification labels
    SentSignals,   \* per channel the signals that users send
    MaxRuns,       \* bound: executions of one workflow ID
    MaxSignals,    \* bound: signals waiting for one execution
    MaxAttempts,   \* bound: attempts of an activity that are told apart
    MaxLate,       \* bound: abandoned inserts that are outstanding
    None           \* no activity under way

VARIABLES
    runs,          \* per alert its executions, oldest first
    inbox,         \* per alert and channel the signals not yet received
    outbox,        \* rows of maritime_isr_outbox that activities wrote
    late           \* inserts of abandoned attempts that may still be carried out

rail == <<runs, inbox, outbox, late>>

States == {"ALERTED", "CLASSIFIED", "DISPATCHED", "INTERDICTED", "OUTCOME_CAPTURED", "REJECTED"}
Channels == {"classification", "dispatch", "interdiction", "outcome"}

\* The channel the workflow reads in a state that is not terminal.
ChannelOf ==
    [s \in {"ALERTED", "CLASSIFIED", "DISPATCHED", "INTERDICTED"} |->
        CASE s = "ALERTED" -> "classification" [] s = "CLASSIFIED" -> "dispatch"
          [] s = "DISPATCHED" -> "interdiction" [] s = "INTERDICTED" -> "outcome"]

Signal == [valid : BOOLEAN, accept : BOOLEAN, clearance : Levels]

AuditEntry == [from : States, to : States, by : Signal]
Status == {"open", "completed", "failed"}

\* An activity: the entry it audits or whose outcome it records, the status of
\* the run once the entry is in its history, and the attempt under way.
Activity ==
    [kind : {"audit", "outcome"}, entry : AuditEntry, then : Status,
     attempt : 1..MaxAttempts, written : BOOLEAN]
Row == [alert : Alerts, run : 1..MaxRuns, kind : {"audit", "outcome"},
        entry : AuditEntry, attempt : 1..MaxAttempts]

ASSUME RailAssumption ==
    /\ Levels \subseteq Nat
    /\ SentSignals \in [Channels -> SUBSET Signal]
    /\ MaxRuns \in Nat /\ MaxSignals \in Nat /\ MaxLate \in Nat /\ MaxAttempts \in Nat \ {0}
    /\ None \notin Activity

RailTypeOK ==
    /\ \A a \in Alerts :
          /\ Len(runs[a]) <= MaxRuns
          /\ \A n \in DOMAIN runs[a] :
                LET r == runs[a][n] IN
                /\ r.level \in Levels /\ r.state \in States /\ r.status \in Status
                /\ \A k \in DOMAIN r.history : r.history[k] \in AuditEntry
                /\ r.activity \in Activity \cup {None}
                /\ r.status # "open" => r.activity = None
                /\ n < Len(runs[a]) => r.status # "open"
          /\ \A c \in Channels : \A k \in DOMAIN inbox[a][c] : inbox[a][c][k] \in Signal
    /\ outbox \subseteq Row /\ late \subseteq Row

NoSignals == [c \in Channels |-> <<>>]

RailInit ==
    /\ runs = [a \in Alerts |-> <<>>]
    /\ inbox = [a \in Alerts |-> NoSignals]
    /\ outbox = {}
    /\ late = {}

Current(a) == runs[a][Len(runs[a])]
Open(a) == runs[a] # <<>> /\ Current(a).status = "open"
Busy(a) == Open(a) /\ Current(a).activity # None
Waiting(a) == Open(a) /\ Current(a).activity = None
SetCurrent(a, r) == runs' = [runs EXCEPT ![a][Len(runs[a])] = r]

-----------------------------------------------------------------------------
(* The workflow                                                            *)

\* A new execution of the workflow; its input was checked by the starter.
NewRun(level) ==
    [level |-> level, state |-> "ALERTED", history |-> <<>>, activity |-> None,
     status |-> "open"]

Pending(a) == SumFunction([c \in Channels |-> Len(inbox[a][c])])

\* A user of Temporal signals the open execution, possibly ahead of its turn.
SignalWorkflow(a, channel, signal) ==
    /\ Open(a)
    /\ Pending(a) < MaxSignals
    /\ inbox' = [inbox EXCEPT ![a][channel] = Append(@, signal)]
    /\ UNCHANGED <<runs, outbox, late>>

Schedule(kind, entry, then) ==
    [kind |-> kind, entry |-> entry, then |-> then, attempt |-> 1, written |-> FALSE]

\* Faulty variant: the analyst's clearance is not compared with the alert's label.
DecisionUncleared(r, signal) ==
    LET go(to, then) == [from |-> r.state, to |-> to, by |-> signal, then |-> then]
        stage == ChannelOf[r.state]
    IN  CASE stage = "classification" ->
                IF signal.accept THEN go("CLASSIFIED", "open") ELSE go("REJECTED", "completed")
          [] stage = "dispatch" ->
                IF signal.accept THEN go("DISPATCHED", "open") ELSE go("REJECTED", "completed")
          [] stage = "interdiction" -> go("INTERDICTED", "open")
          [] stage = "outcome" -> go("OUTCOME_CAPTURED", "completed")

\* What a valid signal decides in the current stage: the transition to audit and
\* how the run goes on after it.
Decision(r, signal) ==
    LET go(to, then) == [from |-> r.state, to |-> to, by |-> signal, then |-> then]
        stage == ChannelOf[r.state]
    IN  CASE stage = "classification" ->
                IF signal.clearance < r.level THEN go("REJECTED", "failed")
                ELSE IF ~signal.accept THEN go("REJECTED", "completed")
                ELSE go("CLASSIFIED", "open")
          [] stage = "dispatch" ->
                IF signal.accept THEN go("DISPATCHED", "open") ELSE go("REJECTED", "completed")
          [] stage = "interdiction" -> go("INTERDICTED", "open")
          [] stage = "outcome" -> go("OUTCOME_CAPTURED", "completed")

\* Faulty variant: a signal without its mandatory fields is put back and awaited
\* again instead of failing the run.
ReceiveSignalAgain(a) ==
    /\ Waiting(a)
    /\ LET r == Current(a)
           channel == ChannelOf[r.state]
       IN  /\ inbox[a][channel] # <<>>
           /\ LET signal == Head(inbox[a][channel])
                  d == Decision(r, signal)
                  entry == [from |-> d.from, to |-> d.to, by |-> d.by]
                  kind == IF channel = "outcome" THEN "outcome" ELSE "audit"
              IN  /\ signal.valid
                  /\ SetCurrent(a, [r EXCEPT !.activity = Schedule(kind, entry, d.then)])
                  /\ inbox' = [inbox EXCEPT ![a][channel] = Tail(@)]
    /\ UNCHANGED <<outbox, late>>

\* The selector takes the first signal of the stage's channel.  A signal without
\* its mandatory fields fails the run at once; any other leads to an activity,
\* the outcome to RecordOutcome before its audit.  Signals that a closed run did
\* not read are gone.
ReceiveSignal(a) ==
    /\ Waiting(a)
    /\ LET r == Current(a)
           channel == ChannelOf[r.state]
       IN  /\ inbox[a][channel] # <<>>
           /\ LET signal == Head(inbox[a][channel])
                  d == Decision(r, signal)
                  entry == [from |-> d.from, to |-> d.to, by |-> d.by]
                  kind == IF channel = "outcome" THEN "outcome" ELSE "audit"
              IN  IF signal.valid
                  THEN /\ SetCurrent(a, [r EXCEPT !.activity = Schedule(kind, entry, d.then)])
                       /\ inbox' = [inbox EXCEPT ![a][channel] = Tail(@)]
                  ELSE /\ SetCurrent(a, [r EXCEPT !.status = "failed"])
                       /\ inbox' = [inbox EXCEPT ![a] = NoSignals]
    /\ UNCHANGED <<outbox, late>>

-----------------------------------------------------------------------------
(* The activities                                                          *)

RowOf(a) ==
    LET act == Current(a).activity
    IN  [alert |-> a, run |-> Len(runs[a]), kind |-> act.kind, entry |-> act.entry,
         attempt |-> act.attempt]

\* appendOutbox: one INSERT with a fresh event_id.
AppendOutbox(a) ==
    /\ Busy(a) /\ ~Current(a).activity.written
    /\ outbox' = outbox \cup {RowOf(a)}
    /\ SetCurrent(a, [Current(a) EXCEPT !.activity.written = TRUE])
    /\ UNCHANGED <<inbox, late>>

\* The attempt returns an error, exceeds StartToCloseTimeout or loses its worker,
\* before or after its row is there; the insert of an attempt that timed out may
\* be carried out later.  The default retry policy repeats the activity for ever.
AttemptFails(a) ==
    /\ Busy(a)
    /\ \/ UNCHANGED late
       \/ /\ ~Current(a).activity.written
          /\ Cardinality(late) < MaxLate
          /\ late' = late \cup {RowOf(a)}
    /\ SetCurrent(a, [Current(a) EXCEPT
           !.activity.written = FALSE,
           !.activity.attempt = IF @ < MaxAttempts THEN @ + 1 ELSE @])
    /\ UNCHANGED <<inbox, outbox>>

LateInsert(row) ==
    /\ row \in late
    /\ outbox' = outbox \cup {row}
    /\ late' = late \ {row}
    /\ UNCHANGED <<runs, inbox>>

\* Faulty variant: an activity that failed is taken for one that succeeded.
ActivityCompletesUnwritten(a) ==
    /\ Busy(a)
    /\ LET r == Current(a)
           act == r.activity
       IN  IF act.kind = "outcome"
           THEN /\ SetCurrent(a, [r EXCEPT !.activity = Schedule("audit", act.entry, act.then)])
                /\ UNCHANGED inbox
           ELSE /\ SetCurrent(a, [r EXCEPT !.activity = None, !.state = act.entry.to,
                                           !.history = Append(@, act.entry),
                                           !.status = act.then])
                /\ inbox' = IF act.then = "open" THEN inbox ELSE [inbox EXCEPT ![a] = NoSignals]
    /\ UNCHANGED <<outbox, late>>

\* The completed attempt reaches the workflow: after RecordOutcome it schedules
\* the audit; after AuditTransition the entry joins the history, the state moves
\* on, and the run waits for the next stage's signal or ends.
ActivityCompletes(a) ==
    /\ Busy(a) /\ Current(a).activity.written
    /\ LET r == Current(a)
           act == r.activity
       IN  IF act.kind = "outcome"
           THEN /\ SetCurrent(a, [r EXCEPT !.activity = Schedule("audit", act.entry, act.then)])
                /\ UNCHANGED inbox
           ELSE /\ SetCurrent(a, [r EXCEPT !.activity = None, !.state = act.entry.to,
                                           !.history = Append(@, act.entry),
                                           !.status = act.then])
                /\ inbox' = IF act.then = "open" THEN inbox ELSE [inbox EXCEPT ![a] = NoSignals]
    /\ UNCHANGED <<outbox, late>>

RailNext ==
    \/ \E a \in Alerts :
          \/ \E channel \in Channels : \E signal \in SentSignals[channel] :
                SignalWorkflow(a, channel, signal)
          \/ ReceiveSignal(a)
          \/ AppendOutbox(a) \/ AttemptFails(a) \/ ActivityCompletes(a)
    \/ \E row \in late : LateInsert(row)

\* Workers poll, Temporal delivers what it has, and the database is not
\* unavailable for ever: an activity that is tried again and again succeeds.
RailFairness ==
    \A a \in Alerts :
       /\ WF_rail(ReceiveSignal(a))
       /\ SF_rail(AppendOutbox(a))
       /\ SF_rail(ActivityCompletes(a))

-----------------------------------------------------------------------------
(* Properties                                                              *)

\* The audit trail and the workflow's own history tell the same story, although
\* rows are written before the state moves, more than once and late: every
\* transition in the history has a row, and every row, also one still on its
\* way, is of a transition in the history or of the one under way.  An outcome
\* is on record when the response ends in OUTCOME_CAPTURED, and never before
\* the interdiction.
AuditTrailMatches ==
    \A a \in Alerts : \A n \in DOMAIN runs[a] :
        LET r == runs[a][n]
            past == {r.history[k] : k \in DOMAIN r.history}
            pending == IF r.activity = None THEN {} ELSE {r.activity.entry}
            rows(kind, set) ==
                {row.entry : row \in {w \in set : w.alert = a /\ w.run = n /\ w.kind = kind}}
        IN  /\ past \subseteq rows("audit", outbox)
            /\ rows("audit", outbox \cup late) \subseteq past \cup pending
            /\ rows("outcome", outbox \cup late) # {} => r.state \in {"INTERDICTED", "OUTCOME_CAPTURED"}
            /\ r.state = "OUTCOME_CAPTURED" => rows("outcome", outbox) # {}

responsesBar ==
    [a \in Alerts |-> [n \in DOMAIN runs[a] |->
        [level |-> runs[a][n].level, trail |-> runs[a][n].history,
         over |-> runs[a][n].status # "open"]]]

Lifecycle == INSTANCE ResponseLifecycle WITH responses <- responsesBar

\* "An invalid signal or insufficient clearance never advances the lifecycle"
\* (isr.go:5): whatever order signals come in, each response takes the decisions
\* of the life cycle one by one through their gates, and ends for good.
ResponseIsLifecycle == Lifecycle!Spec

\* A signal for the stage a response waits in is acted on: however often the
\* activity fails, the response leaves the stage or ends.
SignalIsActedOn ==
    \A a \in Alerts, s \in DOMAIN ChannelOf :
        (Waiting(a) /\ Current(a).state = s /\ inbox[a][ChannelOf[s]] # <<>>)
            ~> ~(Open(a) /\ Current(a).state = s)
=============================================================================
