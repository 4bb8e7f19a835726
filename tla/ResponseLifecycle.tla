------------------------ MODULE ResponseLifecycle ------------------------
(***************************************************************************)
(* What the ISR response rail promises (package comment of                 *)
(* internal/workflow/isr.go): each response to an alert walks the life     *)
(* cycle one audited decision at a time, and a decision that does not meet *)
(* its gate never advances it.  Signals, activities, retries and workers   *)
(* are the business of ISRResponse, which implements this.                 *)
(***************************************************************************)
EXTENDS Naturals, Sequences

CONSTANTS Alerts, Levels

\* Per alert the responses to it, oldest first: the label of the alert, the
\* decisions taken so far and whether the response is over.
VARIABLE responses

\* A signal: whether its mandatory fields are there, the decision it carries and
\* the clearance of who took it.
Signals == [valid : BOOLEAN, accept : BOOLEAN, clearance : Levels]

\* The edges of the life cycle.
Edges ==
    { <<"ALERTED", "CLASSIFIED">>, <<"ALERTED", "REJECTED">>,
      <<"CLASSIFIED", "DISPATCHED">>, <<"CLASSIFIED", "REJECTED">>,
      <<"DISPATCHED", "INTERDICTED">>, <<"INTERDICTED", "OUTCOME_CAPTURED">> }
Terminal == {"REJECTED", "OUTCOME_CAPTURED"}

StateOf(r) == IF r.trail = <<>> THEN "ALERTED" ELSE r.trail[Len(r.trail)].to

\* The gate of a decision: only a confirming analyst whose clearance covers the
\* alert classifies it, and only an approving officer dispatches a unit.
MayDecide(r, d) ==
    /\ <<d.from, d.to>> \in Edges
    /\ d.from = StateOf(r)
    /\ d.to = "CLASSIFIED" => d.by.accept /\ d.by.clearance >= r.level
    /\ d.to = "DISPATCHED" => d.by.accept
    /\ d.by.valid

Running(a) == responses[a] # <<>> /\ ~responses[a][Len(responses[a])].over
Replace(a, r) == responses' = [responses EXCEPT ![a][Len(responses[a])] = r]

Init == responses = [a \in Alerts |-> <<>>]

Open(a, level) ==
    /\ ~Running(a)
    /\ responses' = [responses EXCEPT
           ![a] = Append(@, [level |-> level, trail |-> <<>>, over |-> FALSE])]

Decide(a, edge, by) ==
    /\ Running(a)
    /\ LET r == responses[a][Len(responses[a])]
           d == [from |-> edge[1], to |-> edge[2], by |-> by]
       IN  /\ MayDecide(r, d)
           /\ Replace(a, [r EXCEPT !.trail = Append(@, d), !.over = d.to \in Terminal])

\* An invalid signal ends the response where it stands.
Fail(a) ==
    /\ Running(a)
    /\ Replace(a, [responses[a][Len(responses[a])] EXCEPT !.over = TRUE])

Next ==
    \E a \in Alerts :
       \/ \E level \in Levels : Open(a, level)
       \/ \E edge \in Edges, by \in Signals : Decide(a, edge, by)
       \/ Fail(a)

Spec == Init /\ [][Next]_responses
=============================================================================
