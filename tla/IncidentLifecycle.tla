------------------------- MODULE IncidentLifecycle -------------------------
(***************************************************************************)
(* What the incident store promises, without handlers, reads outside       *)
(* transactions or conditional updates: a set of cases, each opened once   *)
(* for one source event, moved along the life cycle and handed from        *)
(* analyst to analyst one version at a time until it is closed.            *)
(* IncidentStore implements this specification.                            *)
(***************************************************************************)
EXTENDS IncidentModel

CONSTANTS IncidentIDs, SourceEvents, Bodies, Principals, None

VARIABLE cases   \* the case of an identifier, None when it was never opened

Open(i, source, body) ==
    /\ cases[i] = None
    /\ \A j \in IncidentIDs : cases[j] # None => cases[j].source # source
    /\ cases' = [cases EXCEPT ![i] =
           [source |-> source, body |-> body, status |-> "OPEN",
            version |-> 1, assignee |-> None]]

Advance(i, next) ==
    /\ cases[i] # None
    /\ ValidTransition(cases[i].status, next)
    /\ cases' = [cases EXCEPT ![i] =
           [@ EXCEPT !.status = next, !.version = cases[i].version + 1]]

HandOver(i, analyst, by) ==
    /\ cases[i] # None
    /\ cases[i].status # "CLOSED"
    /\ analyst # by
    /\ cases' = [cases EXCEPT ![i] =
           [@ EXCEPT !.version = cases[i].version + 1,
                     !.assignee = [analyst |-> analyst, by |-> by,
                                   version |-> cases[i].version + 1]]]

Init == cases = [i \in IncidentIDs |-> None]

Next ==
    \E i \in IncidentIDs :
        \/ \E source \in SourceEvents, body \in Bodies : Open(i, source, body)
        \/ \E next \in NamedStatus : Advance(i, next)
        \/ \E analyst, by \in Principals : HandOver(i, analyst, by)

Spec == Init /\ [][Next]_cases
=============================================================================
