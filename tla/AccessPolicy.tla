--------------------------- MODULE AccessPolicy ---------------------------
(***************************************************************************)
(* Who may do what (internal/isr/access.go).  A principal is its set of    *)
(* roles and its clearance; labels and clearances are ranks.               *)
(***************************************************************************)
EXTENDS Naturals

Roles ==
    {"nimasa-officer", "defence-hq-observer", "nn-officer", "onsa-observer", "marine-police",
     "fleet-operator", "insurer-aggregator", "auditor", "feed-source-admin"}
readOnlyRoles == {"defence-hq-observer", "onsa-observer", "insurer-aggregator", "auditor"}
trackReaderRoles == Roles \ {"insurer-aggregator", "feed-source-admin"}

\* Principal.IsReadOnly: also of a principal without a role.
IsReadOnly(principal) == principal.roles \subseteq readOnlyRoles

\* Faulty variant: the roles alone decide.
CanReadTracksByRole(principal, label) == principal.roles \cap trackReaderRoles # {}

\* Principal.CanReadTracks: by role and by clearance.
CanReadTracks(principal, label) ==
    /\ principal.roles \cap trackReaderRoles # {}
    /\ principal.roles # {"insurer-aggregator"}
    /\ principal.clearance >= label

\* Principal.CanAdministerFeedSources.
CanAdministerFeedSources(principal) == "feed-source-admin" \in principal.roles

\* Store.ListDetections and Store.ListAnomalies: nothing to who reads no tracks;
\* to others the rows whose label the clearance covers.
Listed(principal, rows) ==
    IF CanReadTracks(principal, 0)
    THEN {row \in rows : row.label \in {label \in 0..3 : principal.clearance >= label}}
    ELSE {}
=============================================================================
