------------------------ MODULE ISRResponseProofs ------------------------
(***************************************************************************)
(* Facts about the steps of ISRResponse, for any alerts, labels, signals   *)
(* and bounds.  The rail has no initial start of its own: CvConsumer opens *)
(* the runs, and CvConsumerProofs draws the conclusions about both.        *)
(***************************************************************************)
EXTENDS ISRResponse, TLAPS

\* An execution of the workflow.
Run ==
    [level : Levels, state : States, history : Seq(AuditEntry),
     activity : Activity \cup {None}, status : Status]

\* The tables of the rail.
RailShape ==
    /\ runs \in [Alerts -> Seq(Run)]
    /\ inbox \in [Alerts -> [Channels -> Seq(Signal)]]
    /\ outbox \subseteq Row /\ late \subseteq Row
    /\ \A a \in Alerts : Len(runs[a]) <= MaxRuns

\* Steps of the life cycle and what a decision along one needs.
Steps ==
    { <<"ALERTED", "CLASSIFIED">>, <<"ALERTED", "REJECTED">>,
      <<"CLASSIFIED", "DISPATCHED">>, <<"CLASSIFIED", "REJECTED">>,
      <<"DISPATCHED", "INTERDICTED">>, <<"INTERDICTED", "OUTCOME_CAPTURED">> }
Ends == {"REJECTED", "OUTCOME_CAPTURED"}
Gate(level, entry) ==
    /\ <<entry.from, entry.to>> \in Steps
    /\ entry.by.valid
    /\ entry.to = "CLASSIFIED" => entry.by.accept /\ entry.by.clearance >= level
    /\ entry.to = "DISPATCHED" => entry.by.accept

\* The state of a run is where its history ends, a run that goes on is not at an
\* end, and the activity under way is a decision of the run's state.
RunInv(r) ==
    /\ r.state = IF r.history = <<>> THEN "ALERTED" ELSE r.history[Len(r.history)].to
    /\ r.status = "open" => r.state \notin Ends
    /\ r.status # "open" => r.activity = None
    /\ r.activity # None =>
          /\ Gate(r.level, r.activity.entry)
          /\ r.activity.entry.from = r.state
          /\ r.activity.then = "open" <=> r.activity.entry.to \notin Ends
          /\ r.activity.kind = "outcome" => r.state = "INTERDICTED"

\* Every run is such a run, and only the last one of an alert is open.
RunsInv ==
    \A a \in Alerts : \A n \in DOMAIN runs[a] :
        RunInv(runs[a][n]) /\ (n < Len(runs[a]) => runs[a][n].status # "open")

\* Among the rows there is one of this kind for this entry of this run.
HasRow(rows, a, n, kind, entry) ==
    \E row \in rows : row.alert = a /\ row.run = n /\ row.kind = kind /\ row.entry = entry
HasOutcome(rows, a, n) ==
    \E row \in rows : row.alert = a /\ row.run = n /\ row.kind = "outcome"

\* The rows that are in the outbox before the state of run r moves.
Trail(rows, a, n, r) ==
    /\ \A k \in DOMAIN r.history : HasRow(rows, a, n, "audit", r.history[k])
    /\ r.activity # None =>
          /\ r.activity.written => HasRow(rows, a, n, r.activity.kind, r.activity.entry)
          /\ r.activity.kind = "audit" /\ r.activity.entry.to = "OUTCOME_CAPTURED"
                => HasOutcome(rows, a, n)
    /\ r.state = "OUTCOME_CAPTURED" => HasOutcome(rows, a, n)

\* A row of run r is of a transition of its history or of the activity under way.
RowFits(row, r) ==
    /\ row.kind = "audit" =>
          \/ \E k \in DOMAIN r.history : r.history[k] = row.entry
          \/ r.activity # None /\ r.activity.entry = row.entry
    /\ row.kind = "outcome" => r.state \in {"INTERDICTED", "OUTCOME_CAPTURED"}

\* The outbox has what the runs need, and no row, not even one that is still on
\* its way, says more than the run it is of.
TrailInv ==
    \A a \in Alerts : \A n \in DOMAIN runs[a] : Trail(outbox, a, n, runs[a][n])
RowsInv ==
    \A row \in outbox \cup late :
        row.run \in DOMAIN runs[row.alert] /\ RowFits(row, runs[row.alert][row.run])

RailInv == RailShape /\ RunsInv /\ TrailInv /\ RowsInv

-----------------------------------------------------------------------------
(* Replacing the current run                                               *)

\* The current run is the last one.
LEMMA CurrentFacts ==
    ASSUME RailShape, NEW a \in Alerts, Open(a)
    PROVE  /\ runs[a] \in Seq(Run) /\ Len(runs[a]) \in Nat /\ Len(runs[a]) \in DOMAIN runs[a]
           /\ DOMAIN runs[a] = 1..Len(runs[a])
           /\ Current(a) = runs[a][Len(runs[a])] /\ Current(a) \in Run
           /\ Len(runs[a]) \in 1..MaxRuns
BY RailAssumption DEF RailShape, Open, Current

\* SetCurrent replaces it and nothing else.
LEMMA SetCurrentEffect ==
    ASSUME RailShape, NEW a \in Alerts, Open(a), NEW q \in Run, SetCurrent(a, q)
    PROVE  /\ runs' \in [Alerts -> Seq(Run)]
           /\ Len(runs'[a]) = Len(runs[a]) /\ DOMAIN runs'[a] = DOMAIN runs[a]
           /\ runs'[a][Len(runs[a])] = q
           /\ \A n \in DOMAIN runs[a] \ {Len(runs[a])} : runs'[a][n] = runs[a][n]
           /\ \A b \in Alerts \ {a} : runs'[b] = runs[b]
<1> DEFINE s == runs[a]
           t == [s EXCEPT ![Len(s)] = q]
<1>1. s \in Seq(Run) /\ Len(s) \in DOMAIN s
  BY CurrentFacts
<1>2. /\ t \in Seq(Run) /\ Len(t) = Len(s) /\ DOMAIN t = DOMAIN s /\ t[Len(s)] = q
      /\ \A n \in DOMAIN s \ {Len(s)} : t[n] = s[n]
  BY <1>1
<1>3. runs' = [runs EXCEPT ![a] = t] /\ runs \in [Alerts -> Seq(Run)]
  BY DEF SetCurrent, RailShape
<1> HIDE DEF s, t
<1>4. runs' \in [Alerts -> Seq(Run)] /\ runs'[a] = t /\ \A b \in Alerts \ {a} : runs'[b] = runs[b]
  BY <1>2, <1>3
<1> QED
  BY <1>2, <1>4 DEF s

\* What a run said is still said by the run it becomes.
Covers(r, q) ==
    /\ \A k \in DOMAIN r.history : \E j \in DOMAIN q.history : q.history[j] = r.history[k]
    /\ r.activity # None =>
          \/ \E j \in DOMAIN q.history : q.history[j] = r.activity.entry
          \/ q.activity # None /\ q.activity.entry = r.activity.entry
    /\ r.state \in {"INTERDICTED", "OUTCOME_CAPTURED"}
          => q.state \in {"INTERDICTED", "OUTCOME_CAPTURED"}

\* Rows are never removed, so a trail stays one.
LEMMA TrailGrows ==
    ASSUME NEW rows, NEW more, rows \subseteq more, NEW a, NEW n, NEW r, Trail(rows, a, n, r)
    PROVE  Trail(more, a, n, r)
BY DEF Trail, HasRow, HasOutcome

\* Rows fit the run that theirs becomes.
LEMMA CoversFits ==
    ASSUME NEW row, NEW r, NEW q, RowFits(row, r), Covers(r, q)
    PROVE  RowFits(row, q)
BY DEF RowFits, Covers

\* A step that replaces the current run by one that is sound and says no less,
\* and adds rows of that run only, keeps the invariant.
LEMMA ReplaceKeeps ==
    ASSUME RailInv, NEW a \in Alerts, Open(a), NEW q \in Run, SetCurrent(a, q),
           RunInv(q), Covers(Current(a), q), NEW new \in SUBSET Row,
           inbox' \in [Alerts -> [Channels -> Seq(Signal)]],
           outbox' \subseteq Row, late' \subseteq Row, outbox \subseteq outbox',
           outbox' \cup late' \subseteq outbox \cup late \cup new,
           Trail(outbox', a, Len(runs[a]), q),
           \A row \in new : row.alert = a /\ row.run = Len(runs[a]) /\ RowFits(row, q)
    PROVE  RailInv'
<1> DEFINE n == Len(runs[a])
<1>0. RailShape /\ RunsInv /\ TrailInv /\ RowsInv
  BY DEF RailInv
<1>1. /\ n \in DOMAIN runs[a] /\ n \in Nat /\ DOMAIN runs[a] = 1..n
      /\ Current(a) = runs[a][n]
  BY <1>0, CurrentFacts
<1>2. /\ runs' \in [Alerts -> Seq(Run)]
      /\ Len(runs'[a]) = n /\ DOMAIN runs'[a] = DOMAIN runs[a]
      /\ runs'[a][n] = q
      /\ \A m \in DOMAIN runs[a] \ {n} : runs'[a][m] = runs[a][m]
      /\ \A b \in Alerts \ {a} : runs'[b] = runs[b]
  BY <1>0, SetCurrentEffect
<1> HIDE DEF n
<1>3. RailShape'
  <2>1. \A b \in Alerts : Len(runs'[b]) <= MaxRuns
    BY <1>0, <1>2 DEF RailShape, n
  <2> QED
    BY <1>2, <2>1 DEF RailShape
<1>4. RunsInv'
  <2> SUFFICES ASSUME NEW b \in Alerts, NEW m \in DOMAIN runs'[b]
               PROVE  RunInv(runs'[b][m]) /\ (m < Len(runs'[b]) => runs'[b][m].status # "open")
    BY DEF RunsInv
  <2>1. CASE b = a /\ m = n
    BY <1>1, <1>2, <2>1
  <2>2. CASE b # a \/ m # n
    <3>1. m \in DOMAIN runs[b] /\ runs'[b][m] = runs[b][m] /\ Len(runs'[b]) = Len(runs[b])
      BY <1>2, <2>2 DEF n
    <3> QED
      BY <1>0, <3>1 DEF RunsInv
  <2> QED
    BY <2>1, <2>2
<1>5. TrailInv'
  <2> SUFFICES ASSUME NEW b \in Alerts, NEW m \in DOMAIN runs'[b]
               PROVE  Trail(outbox', b, m, runs'[b][m])
    BY DEF TrailInv
  <2>1. CASE b = a /\ m = n
    BY <1>2, <2>1 DEF n
  <2>2. CASE b # a \/ m # n
    <3>1. m \in DOMAIN runs[b] /\ runs'[b][m] = runs[b][m]
      BY <1>2, <2>2
    <3>2. Trail(outbox, b, m, runs[b][m])
      BY <1>0, <3>1 DEF TrailInv
    <3> QED
      BY <3>1, <3>2, TrailGrows
  <2> QED
    BY <2>1, <2>2
<1>6. RowsInv'
  <2> SUFFICES ASSUME NEW row \in outbox' \cup late'
               PROVE  row.run \in DOMAIN runs'[row.alert] /\ RowFits(row, runs'[row.alert][row.run])
    BY DEF RowsInv
  <2>1. row \in Row /\ row.alert \in Alerts
    BY DEF Row
  <2>2. CASE row \in new
    BY <1>1, <1>2, <2>2 DEF n
  <2>3. CASE row \in outbox \cup late
    <3>1. row.run \in DOMAIN runs[row.alert] /\ RowFits(row, runs[row.alert][row.run])
      BY <1>0, <2>3 DEF RowsInv
    <3>2. CASE row.alert = a /\ row.run = n
      BY <1>1, <1>2, <3>1, <3>2, CoversFits
    <3>3. CASE row.alert # a \/ row.run # n
      BY <1>2, <2>1, <3>1, <3>3
    <3> QED
      BY <3>2, <3>3
  <2> QED
    BY <2>2, <2>3
<1> QED
  BY <1>3, <1>4, <1>5, <1>6 DEF RailInv

\* The same of a step that adds no row.
LEMMA ReplaceKeepsRows ==
    ASSUME RailInv, NEW a \in Alerts, Open(a), NEW q \in Run, SetCurrent(a, q),
           RunInv(q), Covers(Current(a), q),
           inbox' \in [Alerts -> [Channels -> Seq(Signal)]],
           outbox' = outbox, late' = late, Trail(outbox, a, Len(runs[a]), q)
    PROVE  RailInv'
<1>1. outbox' \subseteq Row /\ late' \subseteq Row
  BY DEF RailInv, RailShape
<1>2. outbox' \cup late' \subseteq outbox \cup late \cup {}
  OBVIOUS
<1>3. {} \in SUBSET Row /\ outbox \subseteq outbox' /\ Trail(outbox', a, Len(runs[a]), q)
  OBVIOUS
<1>4. \A row \in {} : row.alert = a /\ row.run = Len(runs[a]) /\ RowFits(row, q)
  OBVIOUS
<1> QED
  BY <1>1, <1>2, <1>3, <1>4, ReplaceKeeps

-----------------------------------------------------------------------------
(* The steps                                                               *)

\* The next activity of a run, or its next attempt.
LEMMA ActivityUpdate ==
    ASSUME NEW r \in Run, NEW act \in Activity \cup {None}
    PROVE  /\ [r EXCEPT !.activity = act] \in Run
           /\ [r EXCEPT !.activity = act].level = r.level
           /\ [r EXCEPT !.activity = act].state = r.state
           /\ [r EXCEPT !.activity = act].history = r.history
           /\ [r EXCEPT !.activity = act].status = r.status
           /\ [r EXCEPT !.activity = act].activity = act
BY DEF Run

\* A run that an improper signal ended.
LEMMA StatusUpdate ==
    ASSUME NEW r \in Run
    PROVE  /\ [r EXCEPT !.status = "failed"] \in Run
           /\ [r EXCEPT !.status = "failed"].level = r.level
           /\ [r EXCEPT !.status = "failed"].state = r.state
           /\ [r EXCEPT !.status = "failed"].history = r.history
           /\ [r EXCEPT !.status = "failed"].activity = r.activity
           /\ [r EXCEPT !.status = "failed"].status = "failed"
BY DEF Run, Status

\* A run after the audit of a transition.
Moved(r, entry, then) ==
    [r EXCEPT !.activity = None, !.state = entry.to, !.history = Append(@, entry), !.status = then]

LEMMA MovedUpdate ==
    ASSUME NEW r \in Run, NEW entry \in AuditEntry, NEW then \in Status
    PROVE  /\ Moved(r, entry, then) \in Run
           /\ Moved(r, entry, then).level = r.level
           /\ Moved(r, entry, then).state = entry.to
           /\ Moved(r, entry, then).history = Append(r.history, entry)
           /\ Moved(r, entry, then).activity = None
           /\ Moved(r, entry, then).status = then
<1>1. r.history \in Seq(AuditEntry) /\ entry.to \in States
  BY DEF Run, AuditEntry
<1>2. Append(r.history, entry) \in Seq(AuditEntry)
  BY <1>1
<1> DEFINE h == Append(r.history, entry)
<1>3. Moved(r, entry, then) = [r EXCEPT !.activity = None, !.state = entry.to, !.history = h, !.status = then]
  BY DEF Moved, Run
<1> HIDE DEF h
<1> QED
  BY <1>1, <1>2, <1>3 DEF Run, h

\* A scheduled activity.
LEMMA ScheduleFacts ==
    ASSUME NEW kind \in {"audit", "outcome"}, NEW entry \in AuditEntry, NEW then \in Status
    PROVE  /\ Schedule(kind, entry, then) \in Activity
           /\ Schedule(kind, entry, then).kind = kind
           /\ Schedule(kind, entry, then).entry = entry
           /\ Schedule(kind, entry, then).then = then
           /\ ~Schedule(kind, entry, then).written
           /\ Schedule(kind, entry, then) # None
<1>1. Schedule(kind, entry, then) \in Activity
  BY RailAssumption DEF Schedule, Activity
<1> QED
  BY <1>1, RailAssumption DEF Schedule

\* An activity's fields.
LEMMA ActivityFacts ==
    ASSUME NEW r \in Run, r.activity # None
    PROVE  /\ r.activity \in Activity /\ r.activity.entry \in AuditEntry
           /\ r.activity.then \in Status /\ r.activity.kind \in {"audit", "outcome"}
           /\ r.activity.attempt \in 1..MaxAttempts
<1>1. r.activity \in Activity
  BY DEF Run
<1> QED
  BY <1>1 DEF Activity

\* Every stage's decision is a step of the life cycle through its gate.
LEMMA DecisionFacts ==
    ASSUME NEW r \in Run, r.state \notin Ends, NEW signal \in Signal, signal.valid
    PROVE  /\ Decision(r, signal).from = r.state /\ Decision(r, signal).by = signal
           /\ <<r.state, Decision(r, signal).to>> \in Steps
           /\ Decision(r, signal).to \in States /\ Decision(r, signal).then \in Status
           /\ Decision(r, signal).then = "open" <=> Decision(r, signal).to \notin Ends
           /\ Decision(r, signal).to = "CLASSIFIED" => signal.accept /\ signal.clearance >= r.level
           /\ Decision(r, signal).to = "DISPATCHED" => signal.accept
           /\ ChannelOf[r.state] = "outcome" <=> r.state = "INTERDICTED"
           /\ ChannelOf[r.state] \in Channels
<1>0. /\ r.state \in {"ALERTED", "CLASSIFIED", "DISPATCHED", "INTERDICTED"}
      /\ signal.clearance \in Nat /\ r.level \in Nat
  BY RailAssumption DEF Run, States, Ends, Signal
<1>1. CASE r.state = "ALERTED"
  <2>1. ChannelOf[r.state] = "classification"
    BY <1>1 DEF ChannelOf
  <2> QED
    BY <1>0, <1>1, <2>1 DEF Decision, Steps, States, Status, Ends, Channels
<1>2. CASE r.state = "CLASSIFIED"
  <2>1. ChannelOf[r.state] = "dispatch"
    BY <1>2 DEF ChannelOf
  <2> QED
    BY <1>0, <1>2, <2>1 DEF Decision, Steps, States, Status, Ends, Channels
<1>3. CASE r.state = "DISPATCHED"
  <2>1. ChannelOf[r.state] = "interdiction"
    BY <1>3 DEF ChannelOf
  <2> QED
    BY <1>0, <1>3, <2>1 DEF Decision, Steps, States, Status, Ends, Channels
<1>4. CASE r.state = "INTERDICTED"
  <2>1. ChannelOf[r.state] = "outcome"
    BY <1>4 DEF ChannelOf
  <2> QED
    BY <1>0, <1>4, <2>1 DEF Decision, Steps, States, Status, Ends, Channels
<1> QED
  BY <1>0, <1>1, <1>2, <1>3, <1>4

\* The current run of an alert is sound.
LEMMA CurrentSound ==
    ASSUME RailInv, NEW a \in Alerts, Open(a)
    PROVE  /\ RunInv(Current(a)) /\ Current(a).status = "open" /\ Current(a) \in Run
           /\ Current(a).state \notin Ends
           /\ Trail(outbox, a, Len(runs[a]), Current(a))
<1>1. RailShape
  BY DEF RailInv
<1>2. Current(a) = runs[a][Len(runs[a])] /\ Len(runs[a]) \in DOMAIN runs[a] /\ Current(a) \in Run
  BY <1>1, CurrentFacts
<1>3. RunInv(Current(a)) /\ Trail(outbox, a, Len(runs[a]), Current(a))
  BY <1>2 DEF RailInv, RunsInv, TrailInv
<1> QED
  BY <1>2, <1>3 DEF RunInv, Open

\* A received signal leads to a decision of the run's stage, or ends the run.
LEMMA ReceiveKeeps ==
    ASSUME RailInv, NEW a \in Alerts, ReceiveSignal(a)
    PROVE  RailInv'
<1> DEFINE r == Current(a)
           channel == ChannelOf[r.state]
           signal == Head(inbox[a][channel])
           d == Decision(r, signal)
           decided == [from |-> d.from, to |-> d.to, by |-> d.by]
           task == IF channel = "outcome" THEN "outcome" ELSE "audit"
<1>0. Open(a) /\ r.activity = None /\ inbox[a][channel] # <<>> /\ outbox' = outbox /\ late' = late
  BY DEF ReceiveSignal, Waiting
<1>1. /\ RunInv(r) /\ r.status = "open" /\ r \in Run /\ r.state \notin Ends
      /\ Trail(outbox, a, Len(runs[a]), r) /\ RailShape
  BY <1>0, CurrentSound DEF RailInv
<1>2. channel \in Channels
  BY <1>1 DEF Run, States, Ends, ChannelOf, Channels
<1>3. inbox[a][channel] \in Seq(Signal) /\ signal \in Signal
  BY <1>0, <1>1, <1>2 DEF RailShape
<1>4. CASE signal.valid
  <2>1. /\ SetCurrent(a, [r EXCEPT !.activity = Schedule(task, decided, d.then)])
        /\ inbox' = [inbox EXCEPT ![a] = [inbox[a] EXCEPT ![channel] = Tail(inbox[a][channel])]]
    BY <1>4 DEF ReceiveSignal
  <2>2. /\ d.from = r.state /\ d.by = signal
        /\ <<r.state, d.to>> \in Steps /\ d.to \in States /\ d.then \in Status
        /\ d.then = "open" <=> d.to \notin Ends
        /\ d.to = "CLASSIFIED" => signal.accept /\ signal.clearance >= r.level
        /\ d.to = "DISPATCHED" => signal.accept
        /\ channel = "outcome" <=> r.state = "INTERDICTED"
    BY <1>1, <1>3, <1>4, DecisionFacts
  <2>3. r.state \in States
    BY <1>1 DEF Run
  <2> HIDE DEF d
  <2>4. /\ decided \in AuditEntry /\ decided.from = r.state /\ decided.to = d.to /\ decided.by = signal
        /\ task \in {"audit", "outcome"} /\ (task = "outcome" <=> r.state = "INTERDICTED")
    BY <1>3, <2>2, <2>3 DEF AuditEntry
  <2>5. PICK e \in AuditEntry, k \in {"audit", "outcome"}, t \in Status :
            /\ SetCurrent(a, [r EXCEPT !.activity = Schedule(k, e, t)])
            /\ e.from = r.state /\ <<r.state, e.to>> \in Steps /\ e.by = signal
            /\ k = "outcome" <=> r.state = "INTERDICTED"
            /\ t = "open" <=> e.to \notin Ends
            /\ e.to = "CLASSIFIED" => signal.accept /\ signal.clearance >= r.level
            /\ e.to = "DISPATCHED" => signal.accept
    BY <2>1, <2>2, <2>4
  <2> DEFINE act == Schedule(k, e, t)
             q == [r EXCEPT !.activity = act]
  <2>6. act \in Activity /\ act.kind = k /\ act.entry = e /\ act.then = t
        /\ ~act.written /\ act # None
    BY ScheduleFacts
  <2> HIDE DEF decided, task, signal, channel, act
  <2>7. /\ q \in Run /\ q.level = r.level /\ q.state = r.state /\ q.history = r.history
        /\ q.status = r.status /\ q.activity = act
    BY <1>1, <2>6, ActivityUpdate
  <2>8. SetCurrent(a, q)
    BY <2>5 DEF act
  <2> HIDE DEF q, r
  <2>9. RunInv(q)
    <3>1. Gate(q.level, e)
      BY <1>4, <2>5, <2>7 DEF Gate
    <3> QED
      BY <1>1, <2>5, <2>6, <2>7, <3>1 DEF RunInv
  <2>10. Covers(r, q)
    BY <1>0, <2>7 DEF Covers
  <2>11. Trail(outbox, a, Len(runs[a]), q)
    <3>1. k = "audit" => e.to # "OUTCOME_CAPTURED"
      BY <2>5 DEF Steps
    <3> QED
      BY <1>0, <1>1, <2>6, <2>7, <3>1 DEF Trail
  <2>12. inbox' \in [Alerts -> [Channels -> Seq(Signal)]]
    <3>1. Tail(inbox[a][channel]) \in Seq(Signal)
      BY <1>0, <1>3
    <3> QED
      BY <1>1, <1>2, <2>1, <3>1 DEF RailShape
  <2> QED
    BY <1>0, <2>7, <2>8, <2>9, <2>10, <2>11, <2>12, ReplaceKeepsRows DEF r
<1>5. CASE ~signal.valid
  <2> DEFINE q == [r EXCEPT !.status = "failed"]
  <2>1. SetCurrent(a, q) /\ inbox' = [inbox EXCEPT ![a] = NoSignals]
    BY <1>5 DEF ReceiveSignal
  <2>2. /\ q \in Run /\ q.level = r.level /\ q.state = r.state /\ q.history = r.history
        /\ q.status = "failed" /\ q.activity = r.activity
    BY <1>1, StatusUpdate
  <2> HIDE DEF q, r, signal, channel
  <2>3. RunInv(q)
    BY <1>0, <1>1, <2>2 DEF RunInv
  <2>4. Covers(r, q)
    BY <2>2 DEF Covers
  <2>5. Trail(outbox, a, Len(runs[a]), q)
    BY <1>0, <1>1, <2>2 DEF Trail
  <2>6. inbox' \in [Alerts -> [Channels -> Seq(Signal)]]
    <3>1. NoSignals \in [Channels -> Seq(Signal)]
      BY DEF NoSignals
    <3> QED
      BY <1>1, <2>1, <3>1 DEF RailShape
  <2> QED
    BY <1>0, <2>1, <2>2, <2>3, <2>4, <2>5, <2>6, ReplaceKeepsRows DEF r
<1> QED
  BY <1>4, <1>5

\* An attempt that wrote its row, and the attempt after one that failed, are of
\* the same activity.
LEMMA WrittenUpdate ==
    ASSUME NEW act \in Activity
    PROVE  /\ [act EXCEPT !.written = TRUE] \in Activity
           /\ [act EXCEPT !.written = TRUE].kind = act.kind
           /\ [act EXCEPT !.written = TRUE].entry = act.entry
           /\ [act EXCEPT !.written = TRUE].then = act.then
BY DEF Activity

LEMMA AttemptUpdate ==
    ASSUME NEW act \in Activity, NEW n \in 1..MaxAttempts
    PROVE  /\ [act EXCEPT !.written = FALSE, !.attempt = n] \in Activity
           /\ [act EXCEPT !.written = FALSE, !.attempt = n].kind = act.kind
           /\ [act EXCEPT !.written = FALSE, !.attempt = n].entry = act.entry
           /\ [act EXCEPT !.written = FALSE, !.attempt = n].then = act.then
           /\ ~[act EXCEPT !.written = FALSE, !.attempt = n].written
BY DEF Activity

LEMMA NestedUpdate ==
    ASSUME NEW r \in Run, NEW act \in Activity, r.activity = act
    PROVE  /\ [r EXCEPT !.activity.written = TRUE] =
                 [r EXCEPT !.activity = [act EXCEPT !.written = TRUE]]
           /\ [r EXCEPT !.activity.written = FALSE,
                        !.activity.attempt = IF @ < MaxAttempts THEN @ + 1 ELSE @] =
                 [r EXCEPT !.activity = [act EXCEPT !.written = FALSE,
                     !.attempt = IF act.attempt < MaxAttempts THEN act.attempt + 1 ELSE act.attempt]]
BY DEF Run, Activity

\* The row an attempt inserts.
LEMMA RowOfFacts ==
    ASSUME RailShape, NEW a \in Alerts, Busy(a)
    PROVE  /\ RowOf(a) \in Row /\ RowOf(a).alert = a /\ RowOf(a).run = Len(runs[a])
           /\ RowOf(a).kind = Current(a).activity.kind
           /\ RowOf(a).entry = Current(a).activity.entry
<1>1. Current(a) \in Run /\ Current(a).activity # None /\ Len(runs[a]) \in 1..MaxRuns
  BY CurrentFacts DEF Busy
<1>2. /\ Current(a).activity.entry \in AuditEntry
      /\ Current(a).activity.kind \in {"audit", "outcome"}
      /\ Current(a).activity.attempt \in 1..MaxAttempts
  BY <1>1, ActivityFacts
<1> QED
  BY <1>1, <1>2 DEF RowOf, Row

\* A run whose activity goes on is still sound, and says what it said.
LEMMA SameActivity ==
    ASSUME NEW r \in Run, r.activity # None, RunInv(r), NEW act \in Activity,
           act.kind = r.activity.kind, act.entry = r.activity.entry, act.then = r.activity.then,
           NEW q \in Run, q.level = r.level, q.state = r.state, q.history = r.history,
           q.status = r.status, q.activity = act
    PROVE  RunInv(q) /\ Covers(r, q) /\ q.activity # None
<1>1. q.activity # None
  BY RailAssumption
<1> QED
  BY <1>1 DEF RunInv, Covers

\* The insert of an attempt, and its failure, keep the invariant.
LEMMA AttemptKeeps ==
    ASSUME RailInv, NEW a \in Alerts, AppendOutbox(a) \/ AttemptFails(a)
    PROVE  RailInv'
<1> DEFINE r == Current(a)
           n == Len(runs[a])
<1>0. RailShape /\ Open(a) /\ r.activity # None /\ inbox' = inbox /\ Busy(a)
  BY DEF AppendOutbox, AttemptFails, Busy, RailInv
<1>1. /\ RunInv(r) /\ r \in Run /\ Trail(outbox, a, n, r)
  BY <1>0, CurrentSound
<1>2. /\ r.activity \in Activity /\ r.activity.attempt \in 1..MaxAttempts
      /\ r.activity.kind \in {"audit", "outcome"}
  BY <1>0, <1>1, ActivityFacts
<1>3. /\ RowOf(a) \in Row /\ RowOf(a).alert = a /\ RowOf(a).run = n
      /\ RowOf(a).kind = r.activity.kind /\ RowOf(a).entry = r.activity.entry
  BY <1>0, RowOfFacts
<1>4. /\ inbox' \in [Alerts -> [Channels -> Seq(Signal)]]
      /\ outbox \subseteq Row /\ late \subseteq Row
  BY <1>0 DEF RailShape
<1>5. RowFits(RowOf(a), r)
  BY <1>0, <1>1, <1>3 DEF RowFits, RunInv
<1>6. CASE AppendOutbox(a)
  <2> DEFINE act == [r.activity EXCEPT !.written = TRUE]
             q == [r EXCEPT !.activity = act]
  <2>1. /\ act \in Activity /\ act.kind = r.activity.kind /\ act.entry = r.activity.entry
        /\ act.then = r.activity.then
    BY <1>2, WrittenUpdate
  <2>2. SetCurrent(a, q) /\ outbox' = outbox \cup {RowOf(a)} /\ late' = late
    <3>1. [r EXCEPT !.activity.written = TRUE] = q
      BY <1>1, <1>2, NestedUpdate
    <3> QED
      BY <1>6, <3>1 DEF AppendOutbox
  <2> HIDE DEF act
  <2>3. /\ q \in Run /\ q.level = r.level /\ q.state = r.state /\ q.history = r.history
        /\ q.status = r.status /\ q.activity = act
    BY <1>1, <2>1, ActivityUpdate
  <2> HIDE DEF q, r, n
  <2>4. RunInv(q) /\ Covers(r, q) /\ q.activity # None
    BY <1>0, <1>1, <2>1, <2>3, SameActivity
  <2>5. Trail(outbox', a, n, q)
    <3>1. Trail(outbox', a, n, r)
      BY <1>1, <2>2, TrailGrows
    <3>2. HasRow(outbox', a, n, act.kind, act.entry)
      BY <1>3, <2>1, <2>2 DEF HasRow
    <3> QED
      BY <1>0, <2>1, <2>3, <3>1, <3>2 DEF Trail
  <2>6. RowFits(RowOf(a), q)
    BY <1>5, <2>4, CoversFits
  <2> DEFINE new == {RowOf(a)}
  <2>7. /\ new \in SUBSET Row
        /\ \A row \in new : row.alert = a /\ row.run = n /\ RowFits(row, q)
    BY <1>3, <2>6
  <2>8. /\ outbox' \subseteq Row /\ late' \subseteq Row /\ outbox \subseteq outbox'
        /\ outbox' \cup late' \subseteq outbox \cup late \cup new
    BY <1>3, <1>4, <2>2
  <2> HIDE DEF new
  <2> QED
    BY <1>0, <1>4, <2>2, <2>3, <2>4, <2>5, <2>7, <2>8, ReplaceKeeps DEF r, n
<1>7. CASE AttemptFails(a)
  <2> DEFINE m == IF r.activity.attempt < MaxAttempts THEN r.activity.attempt + 1
                  ELSE r.activity.attempt
             act == [r.activity EXCEPT !.written = FALSE, !.attempt = m]
             q == [r EXCEPT !.activity = act]
             new == {RowOf(a)}
  <2>1. m \in 1..MaxAttempts
    BY <1>2, RailAssumption
  <2>2. /\ SetCurrent(a, q) /\ outbox' = outbox
        /\ late' = late \/ late' = late \cup {RowOf(a)}
    <3>1. [r EXCEPT !.activity.written = FALSE,
                    !.activity.attempt = IF @ < MaxAttempts THEN @ + 1 ELSE @] = q
      BY <1>1, <1>2, NestedUpdate
    <3> QED
      BY <1>7, <3>1 DEF AttemptFails
  <2> HIDE DEF m
  <2>3. /\ act \in Activity /\ act.kind = r.activity.kind /\ act.entry = r.activity.entry
        /\ act.then = r.activity.then /\ ~act.written
    BY <1>2, <2>1, AttemptUpdate
  <2> HIDE DEF act
  <2>4. /\ q \in Run /\ q.level = r.level /\ q.state = r.state /\ q.history = r.history
        /\ q.status = r.status /\ q.activity = act
    BY <1>1, <2>3, ActivityUpdate
  <2> HIDE DEF q, r, n
  <2>5. RunInv(q) /\ Covers(r, q) /\ q.activity # None
    BY <1>0, <1>1, <2>3, <2>4, SameActivity
  <2>6. Trail(outbox', a, n, q)
    BY <1>0, <1>1, <2>2, <2>3, <2>4 DEF Trail
  <2>7. RowFits(RowOf(a), q)
    BY <1>5, <2>5, CoversFits
  <2>8. /\ new \in SUBSET Row
        /\ \A row \in new : row.alert = a /\ row.run = n /\ RowFits(row, q)
    BY <1>3, <2>7
  <2>9. /\ outbox' \subseteq Row /\ late' \subseteq Row /\ outbox \subseteq outbox'
        /\ outbox' \cup late' \subseteq outbox \cup late \cup new
    BY <1>3, <1>4, <2>2
  <2> HIDE DEF new
  <2> QED
    BY <1>0, <1>4, <2>2, <2>4, <2>5, <2>6, <2>8, <2>9, ReplaceKeeps DEF r, n
<1> QED
  BY <1>6, <1>7

\* One entry more at the end of a history.
LEMMA HistoryGrows ==
    ASSUME NEW h \in Seq(AuditEntry), NEW e \in AuditEntry
    PROVE  /\ Append(h, e) \in Seq(AuditEntry) /\ Append(h, e) # <<>>
           /\ DOMAIN Append(h, e) = 1..(Len(h) + 1) /\ DOMAIN h = 1..Len(h)
           /\ Len(h) \in Nat /\ Len(Append(h, e)) = Len(h) + 1
           /\ \A k \in DOMAIN h : Append(h, e)[k] = h[k]
           /\ Append(h, e)[Len(h) + 1] = e
OBVIOUS

\* The completed activity moves the run on: its row is there, so the history
\* stays within the audit trail.
LEMMA CompleteKeeps ==
    ASSUME RailInv, NEW a \in Alerts, ActivityCompletes(a)
    PROVE  RailInv'
<1> DEFINE r == Current(a)
           n == Len(runs[a])
<1>0. /\ RailShape /\ Open(a) /\ r.activity # None /\ r.activity.written
      /\ outbox' = outbox /\ late' = late
  BY DEF ActivityCompletes, Busy, RailInv
<1>1. RunInv(r) /\ r \in Run /\ Trail(outbox, a, n, r) /\ r.status = "open"
  BY <1>0, CurrentSound
<1>2. PICK e \in AuditEntry, then \in Status :
          /\ r.activity.entry = e /\ r.activity.then = then
          /\ r.activity.kind \in {"audit", "outcome"}
  BY <1>0, <1>1, ActivityFacts
<1>3. CASE r.activity.kind = "outcome"
  <2> DEFINE act == Schedule("audit", e, then)
             q == [r EXCEPT !.activity = act]
  <2>1. SetCurrent(a, q) /\ inbox' = inbox
    BY <1>2, <1>3 DEF ActivityCompletes
  <2>2. act \in Activity /\ act.kind = "audit" /\ act.entry = e /\ act.then = then
        /\ ~act.written /\ act # None
    BY ScheduleFacts
  <2> HIDE DEF act
  <2>3. /\ q \in Run /\ q.level = r.level /\ q.state = r.state /\ q.history = r.history
        /\ q.status = r.status /\ q.activity = act
    BY <1>1, <2>2, ActivityUpdate
  <2> HIDE DEF q, r, n
  <2>4. RunInv(q) /\ Covers(r, q)
    BY <1>0, <1>1, <1>2, <2>2, <2>3 DEF RunInv, Covers
  <2>5. Trail(outbox, a, n, q)
    <3>1. HasOutcome(outbox, a, n)
      BY <1>0, <1>1, <1>3 DEF Trail, HasRow, HasOutcome
    <3> QED
      BY <1>1, <2>2, <2>3, <3>1 DEF Trail
  <2>6. inbox' \in [Alerts -> [Channels -> Seq(Signal)]]
    BY <1>0, <2>1 DEF RailShape
  <2> QED
    BY <1>0, <2>1, <2>3, <2>4, <2>5, <2>6, ReplaceKeepsRows DEF r, n
<1>4. CASE r.activity.kind = "audit"
  <2> DEFINE q == Moved(r, e, then)
             h == r.history
  <2>1. /\ SetCurrent(a, q)
        /\ inbox' = inbox \/ inbox' = [inbox EXCEPT ![a] = NoSignals]
    BY <1>2, <1>4 DEF ActivityCompletes, Moved
  <2>2. /\ q \in Run /\ q.level = r.level /\ q.state = e.to /\ q.history = Append(h, e)
        /\ q.activity = None /\ q.status = then
    BY <1>1, MovedUpdate
  <2>3. h \in Seq(AuditEntry)
    BY <1>1 DEF Run
  <2>4. /\ Append(h, e) # <<>>
        /\ DOMAIN Append(h, e) = 1..(Len(h) + 1) /\ DOMAIN h = 1..Len(h)
        /\ Len(h) \in Nat /\ Len(Append(h, e)) = Len(h) + 1
        /\ \A k \in DOMAIN h : Append(h, e)[k] = h[k]
        /\ Append(h, e)[Len(h) + 1] = e
    BY <2>3, HistoryGrows
  <2> HIDE DEF q, r, n
  <2>5. /\ e.from = r.state /\ <<e.from, e.to>> \in Steps /\ (then = "open" <=> e.to \notin Ends)
    BY <1>0, <1>1, <1>2 DEF RunInv, Gate
  <2>6. RunInv(q)
    BY <2>2, <2>4, <2>5 DEF RunInv
  <2>7. Covers(r, q)
    <3>1. r.state \in {"INTERDICTED", "OUTCOME_CAPTURED"}
              => e.to \in {"INTERDICTED", "OUTCOME_CAPTURED"}
      BY <2>5 DEF Steps
    <3>2. \A k \in DOMAIN h : k \in DOMAIN q.history /\ q.history[k] = h[k]
      BY <2>2, <2>4
    <3>3. Len(h) + 1 \in DOMAIN q.history /\ q.history[Len(h) + 1] = e
      BY <2>2, <2>4
    <3> QED
      BY <1>2, <2>2, <3>1, <3>2, <3>3 DEF Covers
  <2>8. Trail(outbox, a, n, q)
    <3>1. HasRow(outbox, a, n, "audit", e)
      BY <1>0, <1>1, <1>2, <1>4 DEF Trail
    <3>2. ASSUME NEW k \in DOMAIN q.history
          PROVE  HasRow(outbox, a, n, "audit", q.history[k])
      <4>1. CASE k = Len(h) + 1
        BY <2>2, <2>4, <3>1, <4>1
      <4>2. CASE k \in DOMAIN h
        BY <1>1, <2>2, <2>4, <4>2 DEF Trail
      <4> QED
        BY <2>2, <2>4, <4>1, <4>2
    <3>3. q.state = "OUTCOME_CAPTURED" => HasOutcome(outbox, a, n)
      BY <1>0, <1>1, <1>2, <1>4, <2>2 DEF Trail
    <3> QED
      BY <2>2, <3>2, <3>3 DEF Trail
  <2>9. inbox' \in [Alerts -> [Channels -> Seq(Signal)]]
    <3>1. NoSignals \in [Channels -> Seq(Signal)]
      BY DEF NoSignals
    <3> QED
      BY <1>0, <2>1, <3>1 DEF RailShape
  <2> QED
    BY <1>0, <2>1, <2>2, <2>6, <2>7, <2>8, <2>9, ReplaceKeepsRows DEF r, n
<1> QED
  BY <1>2, <1>3, <1>4

\* Signals that arrive and inserts that are carried out late touch no run.
LEMMA SignalKeeps ==
    ASSUME RailInv, NEW a \in Alerts, NEW channel \in Channels, NEW signal \in SentSignals[channel],
           SignalWorkflow(a, channel, signal)
    PROVE  RailInv'
<1>1. signal \in Signal
  BY RailAssumption
<1>2. inbox' \in [Alerts -> [Channels -> Seq(Signal)]]
  <2>1. inbox' = [inbox EXCEPT ![a] = [inbox[a] EXCEPT ![channel] = Append(inbox[a][channel], signal)]]
    BY DEF SignalWorkflow
  <2>2. Append(inbox[a][channel], signal) \in Seq(Signal)
    BY <1>1 DEF RailInv, RailShape
  <2> QED
    BY <2>1, <2>2 DEF RailInv, RailShape
<1>3. UNCHANGED <<runs, outbox, late>>
  BY DEF SignalWorkflow
<1> QED
  BY <1>2, <1>3 DEF RailInv, RailShape, RunsInv, TrailInv, RowsInv

LEMMA LateKeeps ==
    ASSUME RailInv, NEW row \in late, LateInsert(row)
    PROVE  RailInv'
<1>1. /\ outbox' = outbox \cup {row} /\ late' = late \ {row} /\ UNCHANGED <<runs, inbox>>
  BY DEF LateInsert
<1>2. outbox' \cup late' \subseteq outbox \cup late /\ outbox \subseteq outbox'
  BY <1>1
<1>3. RailShape' /\ RunsInv'
  BY <1>1 DEF RailInv, RailShape, RunsInv
<1>4. TrailInv'
  BY <1>1, <1>2, TrailGrows DEF RailInv, TrailInv
<1>5. RowsInv'
  BY <1>1, <1>2 DEF RailInv, RowsInv
<1> QED
  BY <1>3, <1>4, <1>5 DEF RailInv

\* Every step of the rail keeps its invariant.
LEMMA RailNextKeeps ==
    ASSUME RailInv, RailNext
    PROVE  RailInv'
BY SignalKeeps, ReceiveKeeps, AttemptKeeps, CompleteKeeps, LateKeeps DEF RailNext

\* The start of a run keeps it too: no row is of a run that does not exist yet.
LEMMA StartKeeps ==
    ASSUME RailInv, NEW a \in Alerts, NEW level \in Levels, ~Open(a), Len(runs[a]) < MaxRuns,
           runs' = [runs EXCEPT ![a] = Append(@, NewRun(level))], UNCHANGED <<inbox, outbox, late>>
    PROVE  RailInv'
<1> DEFINE s == runs[a]
           r == NewRun(level)
           t == Append(s, r)
<1>0. RailShape /\ RunsInv /\ TrailInv /\ RowsInv
  BY DEF RailInv
<1>1. /\ r \in Run /\ r.state = "ALERTED" /\ r.history = <<>> /\ r.activity = None
      /\ r.status = "open"
  <2>1. <<>> \in Seq(AuditEntry)
    OBVIOUS
  <2> QED
    BY <2>1 DEF NewRun, Run, States, Status
<1>2. s \in Seq(Run)
  BY <1>0 DEF RailShape
<1> HIDE DEF r
<1>3. /\ t \in Seq(Run) /\ Len(t) = Len(s) + 1 /\ DOMAIN t = 1..(Len(s) + 1)
      /\ Len(s) \in Nat /\ DOMAIN s = 1..Len(s)
      /\ \A n \in DOMAIN s : t[n] = s[n]
      /\ t[Len(s) + 1] = r
  BY <1>1, <1>2
<1>4. runs' = [runs EXCEPT ![a] = t] /\ runs \in [Alerts -> Seq(Run)]
  BY <1>0 DEF RailShape, r
<1> HIDE DEF s, t
<1>5. /\ runs' \in [Alerts -> Seq(Run)] /\ runs'[a] = t
      /\ \A b \in Alerts \ {a} : runs'[b] = runs[b]
  BY <1>3, <1>4
<1>6. RailShape'
  <2>1. \A b \in Alerts : Len(runs'[b]) <= MaxRuns
    BY <1>0, <1>3, <1>5, RailAssumption DEF RailShape, s
  <2> QED
    BY <1>0, <1>5, <2>1 DEF RailShape
<1>7. RunsInv'
  <2> SUFFICES ASSUME NEW b \in Alerts, NEW m \in DOMAIN runs'[b]
               PROVE  RunInv(runs'[b][m]) /\ (m < Len(runs'[b]) => runs'[b][m].status # "open")
    BY DEF RunsInv
  <2>1. CASE b # a
    BY <1>0, <1>5, <2>1 DEF RunsInv
  <2>2. CASE b = a /\ m = Len(s) + 1
    <3>1. RunInv(r)
      BY <1>1 DEF RunInv, Ends
    <3> QED
      BY <1>3, <1>5, <2>2, <3>1
  <2>3. CASE b = a /\ m \in DOMAIN s
    <3>1. RunInv(s[m]) /\ (m < Len(s) => s[m].status # "open")
      BY <1>0, <2>3 DEF RunsInv, s
    <3>2. s # <<>> /\ s[Len(s)].status # "open"
      BY <1>3, <2>3 DEF Open, Current, s
    <3> QED
      BY <1>3, <1>5, <2>3, <3>1, <3>2
  <2> QED
    BY <1>3, <1>5, <2>1, <2>2, <2>3
<1>8. TrailInv'
  <2> SUFFICES ASSUME NEW b \in Alerts, NEW m \in DOMAIN runs'[b]
               PROVE  Trail(outbox, b, m, runs'[b][m])
    BY DEF TrailInv
  <2>1. CASE b # a
    BY <1>0, <1>5, <2>1 DEF TrailInv
  <2>2. CASE b = a /\ m = Len(s) + 1
    BY <1>1, <1>3, <1>5, <2>2 DEF Trail
  <2>3. CASE b = a /\ m \in DOMAIN s
    BY <1>0, <1>3, <1>5, <2>3 DEF TrailInv, s
  <2> QED
    BY <1>3, <1>5, <2>1, <2>2, <2>3
<1>9. RowsInv'
  <2> SUFFICES ASSUME NEW row \in outbox \cup late
               PROVE  row.run \in DOMAIN runs'[row.alert] /\ RowFits(row, runs'[row.alert][row.run])
    BY DEF RowsInv
  <2>1. row.alert \in Alerts
    BY <1>0 DEF RailShape, Row
  <2>2. row.run \in DOMAIN runs[row.alert] /\ RowFits(row, runs[row.alert][row.run])
    BY <1>0 DEF RowsInv
  <2> QED
    BY <1>3, <1>5, <2>1, <2>2 DEF s
<1> QED
  BY <1>6, <1>7, <1>8, <1>9 DEF RailInv

-----------------------------------------------------------------------------
(* What the invariant says                                                 *)

\* The tables are of their types.
LEMMA RailTypes == RailInv => RailTypeOK
<1> SUFFICES ASSUME RailInv PROVE RailTypeOK
  OBVIOUS
<1>1. ASSUME NEW a \in Alerts, NEW n \in DOMAIN runs[a]
      PROVE  /\ runs[a][n].level \in Levels /\ runs[a][n].state \in States
             /\ runs[a][n].status \in Status
             /\ \A k \in DOMAIN runs[a][n].history : runs[a][n].history[k] \in AuditEntry
             /\ runs[a][n].activity \in Activity \cup {None}
             /\ runs[a][n].status # "open" => runs[a][n].activity = None
             /\ n < Len(runs[a]) => runs[a][n].status # "open"
  <2>1. runs[a][n] \in Run /\ RunInv(runs[a][n]) /\ (n < Len(runs[a]) => runs[a][n].status # "open")
    BY DEF RailInv, RailShape, RunsInv
  <2>2. runs[a][n].history \in Seq(AuditEntry)
    BY <2>1 DEF Run
  <2> QED
    BY <2>1, <2>2 DEF Run, RunInv
<1>2. \A a \in Alerts, c \in Channels : \A k \in DOMAIN inbox[a][c] : inbox[a][c][k] \in Signal
  BY DEF RailInv, RailShape
<1> QED
  BY <1>1, <1>2 DEF RailTypeOK, RailInv, RailShape

\* The audit trail and the histories tell the same story.
LEMMA RailTrail == RailInv => AuditTrailMatches
<1> SUFFICES ASSUME RailInv, NEW a \in Alerts, NEW n \in DOMAIN runs[a]
             PROVE  /\ {runs[a][n].history[k] : k \in DOMAIN runs[a][n].history} \subseteq
                          {row.entry : row \in {w \in outbox : w.alert = a /\ w.run = n /\ w.kind = "audit"}}
                    /\ {row.entry : row \in {w \in outbox \cup late :
                                                w.alert = a /\ w.run = n /\ w.kind = "audit"}}
                          \subseteq {runs[a][n].history[k] : k \in DOMAIN runs[a][n].history}
                             \cup (IF runs[a][n].activity = None THEN {} ELSE {runs[a][n].activity.entry})
                    /\ {row.entry : row \in {w \in outbox \cup late :
                                                w.alert = a /\ w.run = n /\ w.kind = "outcome"}} # {}
                          => runs[a][n].state \in {"INTERDICTED", "OUTCOME_CAPTURED"}
                    /\ runs[a][n].state = "OUTCOME_CAPTURED" =>
                          {row.entry : row \in {w \in outbox :
                                                w.alert = a /\ w.run = n /\ w.kind = "outcome"}} # {}
  BY DEF AuditTrailMatches
<1>1. Trail(outbox, a, n, runs[a][n])
  BY DEF RailInv, TrailInv
<1>2. \A row \in outbox \cup late : row.alert = a /\ row.run = n => RowFits(row, runs[a][n])
  BY DEF RailInv, RowsInv
<1> DEFINE r == runs[a][n]
<1> HIDE DEF r
<1>3. {r.history[k] : k \in DOMAIN r.history} \subseteq
          {row.entry : row \in {w \in outbox : w.alert = a /\ w.run = n /\ w.kind = "audit"}}
  BY <1>1 DEF Trail, HasRow, r
<1>4. {row.entry : row \in {w \in outbox \cup late : w.alert = a /\ w.run = n /\ w.kind = "audit"}}
          \subseteq {r.history[k] : k \in DOMAIN r.history}
             \cup (IF r.activity = None THEN {} ELSE {r.activity.entry})
  BY <1>2 DEF RowFits, r
<1>5. {row.entry : row \in {w \in outbox \cup late : w.alert = a /\ w.run = n /\ w.kind = "outcome"}} # {}
          => r.state \in {"INTERDICTED", "OUTCOME_CAPTURED"}
  BY <1>2 DEF RowFits, r
<1>6. r.state = "OUTCOME_CAPTURED" =>
          {row.entry : row \in {w \in outbox : w.alert = a /\ w.run = n /\ w.kind = "outcome"}} # {}
  BY <1>1 DEF Trail, HasOutcome, r
<1> QED
  BY <1>3, <1>4, <1>5, <1>6 DEF r

-----------------------------------------------------------------------------
(* The life cycle                                                          *)

\* What becomes of the current run: it goes on as before, ends where it stands,
\* or takes the decision of its activity.
Continues(r, q) ==
    /\ q.level = r.level
    /\ \/ q.history = r.history /\ q.status = r.status
       \/ q.history = r.history /\ q.status # "open"
       \/ /\ r.activity # None
          /\ q.history = Append(r.history, r.activity.entry)
          /\ q.status = "open" <=> r.activity.entry.to \notin Ends

\* A step of the rail leaves the runs alone or continues one.
LEMMA RunMoves ==
    ASSUME RailInv, RailNext
    PROVE  \/ runs' = runs
           \/ \E a \in Alerts, q \in Run :
                 Open(a) /\ SetCurrent(a, q) /\ Continues(Current(a), q)
<1>0. RailShape /\ RailInv'
  BY RailNextKeeps DEF RailInv
<1>1. ASSUME NEW a \in Alerts, Open(a), NEW q, SetCurrent(a, q), Continues(Current(a), q)
      PROVE  \E p \in Run : SetCurrent(a, p) /\ Continues(Current(a), p)
  <2>1. runs[a] \in Seq(Run) /\ Len(runs[a]) \in DOMAIN runs[a]
    BY <1>0, <1>1, CurrentFacts
  <2>2. runs' = [runs EXCEPT ![a] = [runs[a] EXCEPT ![Len(runs[a])] = q]]
    BY <1>1 DEF SetCurrent
  <2>3. runs'[a] = [runs[a] EXCEPT ![Len(runs[a])] = q]
    BY <1>0, <2>2 DEF RailShape
  <2>4. Len(runs[a]) \in DOMAIN runs'[a] /\ runs'[a][Len(runs[a])] = q
    BY <2>1, <2>3
  <2>5. runs'[a] \in Seq(Run)
    BY <1>0 DEF RailInv, RailShape
  <2>6. q \in Run
    BY <2>4, <2>5
  <2> QED
    BY <1>1, <2>6
<1>2. ASSUME NEW a \in Alerts, ReceiveSignal(a)
      PROVE  Open(a) /\ \E q : SetCurrent(a, q) /\ Continues(Current(a), q)
  <2>1. Open(a)
    BY <1>2 DEF ReceiveSignal, Waiting
  <2>2. Current(a) \in Run
    BY <1>0, <2>1, CurrentFacts
  <2>3. ASSUME NEW act
        PROVE  Continues(Current(a), [Current(a) EXCEPT !.activity = act])
    BY <2>2 DEF Continues, Run
  <2>4. Continues(Current(a), [Current(a) EXCEPT !.status = "failed"])
    BY <2>2 DEF Continues, Run
  <2>5. \/ \E act : SetCurrent(a, [Current(a) EXCEPT !.activity = act])
        \/ SetCurrent(a, [Current(a) EXCEPT !.status = "failed"])
    BY <1>2 DEF ReceiveSignal
  <2> QED
    BY <2>1, <2>3, <2>4, <2>5
<1>3. ASSUME NEW a \in Alerts, AppendOutbox(a) \/ AttemptFails(a)
      PROVE  Open(a) /\ \E q : SetCurrent(a, q) /\ Continues(Current(a), q)
  <2>1. Open(a) /\ Current(a).activity # None
    BY <1>3 DEF AppendOutbox, AttemptFails, Busy
  <2>2. Current(a) \in Run /\ Current(a).activity \in Activity
    BY <1>0, <2>1, CurrentFacts, ActivityFacts
  <2>3. ASSUME NEW act
        PROVE  Continues(Current(a), [Current(a) EXCEPT !.activity = act])
    BY <2>2 DEF Continues, Run
  <2>4. \E act : SetCurrent(a, [Current(a) EXCEPT !.activity = act])
    <3>1. PICK r \in Run, act \in Activity : r = Current(a) /\ act = r.activity
      BY <2>2
    <3>2. \/ SetCurrent(a, [r EXCEPT !.activity.written = TRUE])
          \/ SetCurrent(a, [r EXCEPT !.activity.written = FALSE,
                       !.activity.attempt = IF @ < MaxAttempts THEN @ + 1 ELSE @])
      BY <1>3, <3>1 DEF AppendOutbox, AttemptFails
    <3>3. \/ SetCurrent(a, [r EXCEPT !.activity = [act EXCEPT !.written = TRUE]])
          \/ SetCurrent(a, [r EXCEPT !.activity = [act EXCEPT !.written = FALSE,
                 !.attempt = IF act.attempt < MaxAttempts THEN act.attempt + 1 ELSE act.attempt]])
      BY <3>1, <3>2, NestedUpdate
    <3> QED
      BY <3>1, <3>3
  <2> QED
    BY <2>1, <2>3, <2>4
<1>4. ASSUME NEW a \in Alerts, ActivityCompletes(a)
      PROVE  Open(a) /\ \E q : SetCurrent(a, q) /\ Continues(Current(a), q)
  <2> DEFINE r == Current(a)
  <2>1. Open(a) /\ r.activity # None
    BY <1>4 DEF ActivityCompletes, Busy
  <2>2. r \in Run /\ RunInv(r)
    BY <2>1, CurrentSound
  <2>3. r.activity.entry \in AuditEntry /\ r.activity.then \in Status
    BY <2>1, <2>2, ActivityFacts
  <2>4. ASSUME NEW act
        PROVE  Continues(r, [r EXCEPT !.activity = act])
    BY <2>2 DEF Continues, Run
  <2>5. Continues(r, Moved(r, r.activity.entry, r.activity.then))
    <3>1. r.activity.then = "open" <=> r.activity.entry.to \notin Ends
      BY <2>1, <2>2 DEF RunInv
    <3> QED
      BY <2>1, <2>2, <2>3, <3>1, MovedUpdate DEF Continues
  <2>6. \/ \E act : SetCurrent(a, [r EXCEPT !.activity = act])
        \/ SetCurrent(a, Moved(r, r.activity.entry, r.activity.then))
    BY <1>4 DEF ActivityCompletes, Moved
  <2> QED
    BY <2>1, <2>4, <2>5, <2>6
<1> QED
  BY <1>1, <1>2, <1>3, <1>4 DEF RailNext, SignalWorkflow, LateInsert

\* The response that a run stands for.
Response == [level : Levels, trail : Seq(AuditEntry), over : BOOLEAN]
ResponseOf(r) == [level |-> r.level, trail |-> r.history, over |-> r.status # "open"]

LEMMA ResponseType ==
    ASSUME NEW r \in Run
    PROVE  /\ ResponseOf(r) \in Response
           /\ ResponseOf(r).level = r.level /\ ResponseOf(r).trail = r.history
           /\ ResponseOf(r).over <=> r.status # "open"
BY DEF ResponseOf, Response, Run

\* Responses with equal fields are equal.
LEMMA ResponseEquality ==
    ASSUME NEW x \in Response, NEW y \in Response,
           x.level = y.level, x.trail = y.trail, x.over <=> y.over
    PROVE  x = y
BY DEF Response

\* The refinement mapping, alert by alert.
LEMMA BarFacts ==
    ASSUME RailShape, NEW a \in Alerts
    PROVE  /\ responsesBar[a] = [n \in 1..Len(runs[a]) |-> ResponseOf(runs[a][n])]
           /\ responsesBar[a] \in Seq(Response)
           /\ Len(responsesBar[a]) = Len(runs[a]) /\ Len(runs[a]) \in Nat
           /\ DOMAIN responsesBar[a] = 1..Len(runs[a])
           /\ \A n \in 1..Len(runs[a]) : responsesBar[a][n] = ResponseOf(runs[a][n])
<1>1. runs[a] \in Seq(Run) /\ Len(runs[a]) \in Nat /\ DOMAIN runs[a] = 1..Len(runs[a])
  BY DEF RailShape
<1>2. responsesBar[a] = [n \in 1..Len(runs[a]) |-> ResponseOf(runs[a][n])]
  BY <1>1 DEF responsesBar, ResponseOf
<1>3. \A n \in 1..Len(runs[a]) : ResponseOf(runs[a][n]) \in Response
  BY <1>1, ResponseType
<1> QED
  BY <1>1, <1>2, <1>3

\* A response is running as long as its run is open.
LEMMA RunningIsOpen ==
    ASSUME RailShape, NEW a \in Alerts
    PROVE  Lifecycle!Running(a) <=> Open(a)
<1>1. runs[a] \in Seq(Run) /\ Len(runs[a]) \in Nat
  BY DEF RailShape
<1>a. PICK t \in Seq(Response) : t = responsesBar[a] /\ Len(t) = Len(runs[a])
  BY BarFacts
<1>2. responsesBar[a] = <<>> <=> Len(runs[a]) = 0
  <2>1. t = <<>> <=> Len(t) = 0
    OBVIOUS
  <2> QED
    BY <1>a, <2>1
<1>3. runs[a] = <<>> <=> Len(runs[a]) = 0
  BY <1>1
<1>4. ASSUME Len(runs[a]) # 0
      PROVE  responsesBar[a][Len(responsesBar[a])].over <=> Current(a).status # "open"
  <2>1. Len(runs[a]) \in 1..Len(runs[a]) /\ Len(responsesBar[a]) = Len(runs[a])
    <3>1. Len(runs[a]) \in 1..Len(runs[a])
      BY <1>1, <1>4
    <3>2. Len(responsesBar[a]) = Len(runs[a])
      BY <1>a
    <3> QED
      BY <3>1, <3>2
  <2>2. responsesBar[a][Len(responsesBar[a])] = ResponseOf(Current(a))
    BY <2>1, BarFacts DEF Current
  <2>3. Current(a) \in Run
    BY <1>1, <2>1 DEF Current
  <2> QED
    BY <2>2, <2>3, ResponseType
<1> QED
  BY <1>2, <1>3, <1>4 DEF Lifecycle!Running, Open

\* Continuing the current run replaces the running response.
LEMMA BarReplaced ==
    ASSUME RailShape, RailShape', NEW a \in Alerts, Open(a), NEW q \in Run, SetCurrent(a, q)
    PROVE  Lifecycle!Replace(a, ResponseOf(q))
<1> DEFINE n == Len(runs[a])
           x == ResponseOf(q)
<1>1. /\ Len(runs'[a]) = n /\ DOMAIN runs'[a] = DOMAIN runs[a]
      /\ runs'[a][n] = q
      /\ \A m \in DOMAIN runs[a] \ {n} : runs'[a][m] = runs[a][m]
      /\ \A b \in Alerts \ {a} : runs'[b] = runs[b]
  BY SetCurrentEffect
<1>2. n \in DOMAIN runs[a] /\ n \in Nat /\ DOMAIN runs[a] = 1..n
  BY CurrentFacts
<1>3. /\ responsesBar = [b \in Alerts |-> responsesBar[b]]
      /\ responsesBar' = [b \in Alerts |-> responsesBar'[b]]
  BY DEF responsesBar
<1>4. \A b \in Alerts \ {a} : responsesBar'[b] = responsesBar[b]
  BY <1>1 DEF responsesBar
<1>5. responsesBar'[a] = [m \in 1..n |-> ResponseOf(runs'[a][m])]
  BY <1>1, <1>2 DEF responsesBar, ResponseOf
<1>6. responsesBar[a] = [m \in 1..n |-> ResponseOf(runs[a][m])] /\ Len(responsesBar[a]) = n
  BY BarFacts
<1> HIDE DEF n, x
<1>7. responsesBar'[a] = [responsesBar[a] EXCEPT ![n] = x]
  <2>1. \A m \in 1..n : ResponseOf(runs'[a][m]) = IF m = n THEN x ELSE ResponseOf(runs[a][m])
    BY <1>1, <1>2 DEF x
  <2> QED
    BY <1>2, <1>5, <1>6, <2>1
<1>8. responsesBar' = [responsesBar EXCEPT ![a] = [responsesBar[a] EXCEPT ![n] = x]]
  BY <1>3, <1>4, <1>7
<1> QED
  BY <1>6, <1>8 DEF Lifecycle!Replace, x

\* A step of the rail is a step of the life cycle, or none.
LEMMA RailRefines ==
    ASSUME RailInv, RailNext
    PROVE  Lifecycle!Next \/ responsesBar' = responsesBar
<1>0. RailShape /\ RailShape' /\ RailInv'
  BY RailNextKeeps DEF RailInv
<1>1. CASE runs' = runs
  BY <1>1 DEF responsesBar
<1>2. ASSUME NEW a \in Alerts, NEW q \in Run, Open(a), SetCurrent(a, q), Continues(Current(a), q)
      PROVE  Lifecycle!Next \/ responsesBar' = responsesBar
  <2> DEFINE r == Current(a)
             x == ResponseOf(r)
             y == ResponseOf(q)
  <2>1. r \in Run /\ RunInv(r) /\ r.status = "open"
    BY <1>2, CurrentSound
  <2>2. /\ x \in Response /\ x.level = r.level /\ x.trail = r.history /\ ~x.over
        /\ y \in Response /\ y.level = q.level /\ y.trail = q.history
        /\ (y.over <=> q.status # "open")
    BY <2>1, ResponseType
  <2>3. Lifecycle!Replace(a, y) /\ Lifecycle!Running(a)
    BY <1>0, <1>2, BarReplaced, RunningIsOpen
  <2>4. responsesBar[a][Len(responsesBar[a])] = x
    <3>1. Len(runs[a]) \in 1..Len(runs[a]) /\ r = runs[a][Len(runs[a])]
      BY <1>0, <1>2, CurrentFacts
    <3> QED
      BY <1>0, <3>1, BarFacts
  <2>5. r.history \in Seq(AuditEntry) /\ r.level \in Levels
    BY <2>1 DEF Run
  <2> HIDE DEF x, y
  <2>6. CASE q.history = r.history /\ q.status = r.status
    <3>1. y = x
      BY <1>2, <2>1, <2>2, <2>6, ResponseEquality DEF Continues
    <3>2. Len(runs'[a]) = Len(runs[a]) /\ responsesBar' = [responsesBar EXCEPT ![a] =
              [responsesBar[a] EXCEPT ![Len(responsesBar[a])] = x]]
      BY <1>0, <1>2, <2>3, <3>1, SetCurrentEffect DEF Lifecycle!Replace
    <3>3. [responsesBar[a] EXCEPT ![Len(responsesBar[a])] = x] = responsesBar[a]
      BY <1>0, <2>4, BarFacts
    <3> QED
      BY <3>2, <3>3 DEF responsesBar
  <2>7. CASE q.history = r.history /\ q.status # "open"
    <3>1. [x EXCEPT !.over = TRUE] \in Response /\ [x EXCEPT !.over = TRUE].level = x.level
          /\ [x EXCEPT !.over = TRUE].trail = x.trail /\ [x EXCEPT !.over = TRUE].over
      BY <2>2 DEF Response
    <3>2. y = [x EXCEPT !.over = TRUE]
      BY <1>2, <2>2, <2>7, <3>1, ResponseEquality DEF Continues
    <3>3. Lifecycle!Fail(a)
      BY <2>3, <2>4, <3>2 DEF Lifecycle!Fail
    <3> QED
      BY <3>3 DEF Lifecycle!Next
  <2>8. CASE /\ r.activity # None
             /\ q.history = Append(r.history, r.activity.entry)
             /\ q.status = "open" <=> r.activity.entry.to \notin Ends
    <3>1. PICK e \in AuditEntry : r.activity.entry = e
      BY <2>1, <2>8, ActivityFacts
    <3>2. Gate(r.level, e) /\ e.from = r.state
      BY <2>1, <2>8, <3>1 DEF RunInv
    <3> DEFINE d == [from |-> e.from, to |-> e.to, by |-> e.by]
               z == [x EXCEPT !.trail = Append(@, d), !.over = d.to \in Lifecycle!Terminal]
    <3>3. d = e /\ e.by \in Signal
      BY DEF AuditEntry
    <3>4. Append(x.trail, e) \in Seq(AuditEntry)
      BY <2>2, <2>5
    <3>5. /\ z \in Response /\ z.level = x.level /\ z.trail = Append(x.trail, e)
          /\ z.over <=> e.to \in Ends
      <4>1. ASSUME NEW h \in Seq(AuditEntry), NEW b \in BOOLEAN
            PROVE  /\ [x EXCEPT !.trail = h, !.over = b] \in Response
                   /\ [x EXCEPT !.trail = h, !.over = b].level = x.level
                   /\ [x EXCEPT !.trail = h, !.over = b].trail = h
                   /\ [x EXCEPT !.trail = h, !.over = b].over = b
        BY <2>2 DEF Response
      <4>2. z = [x EXCEPT !.trail = Append(x.trail, e), !.over = e.to \in Ends]
        BY <3>3 DEF Lifecycle!Terminal, Ends
      <4>3. (e.to \in Ends) \in BOOLEAN
        OBVIOUS
      <4> HIDE DEF z
      <4> QED
        BY <3>4, <4>1, <4>2, <4>3
    <3> HIDE DEF d, z
    <3>6. y = z
      <4>1. y.level = z.level /\ y.trail = z.trail
        BY <1>2, <2>2, <2>8, <3>1, <3>5 DEF Continues
      <4>2. y.over <=> z.over
        BY <2>2, <2>8, <3>1, <3>5
      <4> QED
        BY <2>2, <3>5, <4>1, <4>2, ResponseEquality
    <3>7. Lifecycle!StateOf(x) = r.state
      BY <2>1, <2>2 DEF Lifecycle!StateOf, RunInv
    <3>8. Lifecycle!MayDecide(x, e)
      BY <2>2, <3>2, <3>7 DEF Lifecycle!MayDecide, Gate, Lifecycle!Edges, Steps
    <3>9. <<e.from, e.to>> \in Lifecycle!Edges /\ e.by \in Lifecycle!Signals
      BY <3>2, <3>3 DEF Gate, Steps, Lifecycle!Edges, Lifecycle!Signals, Signal
    <3>10. Lifecycle!Decide(a, <<e.from, e.to>>, e.by)
      BY <2>3, <2>4, <3>3, <3>6, <3>8 DEF Lifecycle!Decide, d, z
    <3> QED
      BY <3>9, <3>10 DEF Lifecycle!Next
  <2> QED
    BY <1>2, <2>6, <2>7, <2>8 DEF Continues
<1> QED
  BY <1>1, <1>2, RunMoves

\* So is the start of a run.
LEMMA StartRefines ==
    ASSUME RailInv, RailInv', NEW a \in Alerts, NEW level \in Levels, ~Open(a),
           runs' = [runs EXCEPT ![a] = Append(@, NewRun(level))]
    PROVE  Lifecycle!Next
<1> DEFINE n == Len(runs[a])
           x == [level |-> level, trail |-> <<>>, over |-> FALSE]
<1>0. RailShape /\ RailShape'
  BY DEF RailInv
<1>1. runs[a] \in Seq(Run) /\ n \in Nat /\ DOMAIN runs[a] = 1..n
  BY <1>0 DEF RailShape
<1>2. runs'[a] = Append(runs[a], NewRun(level)) /\ \A b \in Alerts \ {a} : runs'[b] = runs[b]
  BY <1>0 DEF RailShape
<1>3. NewRun(level) \in Run /\ ResponseOf(NewRun(level)) = x
  <2>1. <<>> \in Seq(AuditEntry)
    OBVIOUS
  <2> QED
    BY <2>1 DEF NewRun, Run, States, Status, ResponseOf
<1>4. /\ Len(runs'[a]) = n + 1 /\ DOMAIN runs'[a] = 1..(n + 1)
      /\ \A m \in 1..n : runs'[a][m] = runs[a][m]
      /\ runs'[a][n + 1] = NewRun(level)
  BY <1>1, <1>2, <1>3
<1>5. /\ responsesBar = [b \in Alerts |-> responsesBar[b]]
      /\ responsesBar' = [b \in Alerts |-> responsesBar'[b]]
  BY DEF responsesBar
<1>6. \A b \in Alerts \ {a} : responsesBar'[b] = responsesBar[b]
  BY <1>2 DEF responsesBar
<1>7. responsesBar'[a] = [m \in 1..(n + 1) |-> ResponseOf(runs'[a][m])]
  BY <1>4 DEF responsesBar, ResponseOf
<1>8. responsesBar[a] = [m \in 1..n |-> ResponseOf(runs[a][m])] /\ responsesBar[a] \in Seq(Response)
      /\ Len(responsesBar[a]) = n
  BY <1>0, BarFacts
<1>9. x \in Response
  BY <1>3, ResponseType
<1> HIDE DEF n, x
<1>10. responsesBar'[a] = Append(responsesBar[a], x)
  <2> DEFINE t == Append(responsesBar[a], x)
  <2>1. /\ t \in Seq(Response) /\ Len(t) = n + 1
        /\ t[n + 1] = x /\ \A m \in 1..n : t[m] = responsesBar[a][m]
    BY <1>1, <1>8, <1>9
  <2>2. t = [m \in 1..(n + 1) |-> t[m]]
    BY <2>1
  <2>3. \A m \in 1..(n + 1) : ResponseOf(runs'[a][m]) = t[m]
    BY <1>1, <1>3, <1>4, <1>8, <2>1
  <2> HIDE DEF t
  <2>4. responsesBar'[a] = t
    BY <1>7, <2>2, <2>3
  <2> QED
    BY <2>4 DEF t
<1>11. responsesBar' = [responsesBar EXCEPT ![a] = Append(responsesBar[a], x)]
  BY <1>5, <1>6, <1>10
<1>12. ~Lifecycle!Running(a)
  BY <1>0, RunningIsOpen
<1>13. Lifecycle!Open(a, level)
  BY <1>11, <1>12 DEF Lifecycle!Open, x
<1> QED
  BY <1>13 DEF Lifecycle!Next

==========================================================================
