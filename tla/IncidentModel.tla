--------------------------- MODULE IncidentModel ---------------------------
(***************************************************************************)
(* The vocabulary of internal/incident/model.go: the life-cycle statuses,  *)
(* the edges between them and the comparison that decides whether a create *)
(* request repeats a retained incident.                                    *)
(***************************************************************************)
EXTENDS Naturals

Status == {"OPEN", "ACKNOWLEDGED", "INVESTIGATING", "RESOLVED", "CLOSED"}

\* The statuses the transition endpoint can name: "acknowledge",
\* "investigate", "resolve" and "close".  No operation names OPEN.
NamedStatus == Status \ {"OPEN"}

\* The edges of the life cycle.  Every live status may be resolved directly
\* except RESOLVED itself, which only closes.
ValidTransition(current, next) ==
    \/ current = "OPEN"          /\ next \in {"ACKNOWLEDGED", "RESOLVED"}
    \/ current = "ACKNOWLEDGED"  /\ next \in {"INVESTIGATING", "RESOLVED"}
    \/ current = "INVESTIGATING" /\ next = "RESOLVED"
    \/ current = "RESOLVED"      /\ next = "CLOSED"

\* A retained row repeats a request when the identifiers and every content
\* field agree.  "body" stands for category, severity, title, description,
\* occurred_at and created_by; status, version and timestamps are not compared.
Matches(id, row, request) ==
    /\ id = request.id
    /\ row.source = request.source
    /\ row.body = request.body
=============================================================================
