-------------------------- MODULE MCIncidentStore --------------------------
(* Small instances of IncidentStore for TLC. *)
EXTENDS IncidentStore, TLC

\* Interchangeable values: no operation orders or singles out one of them.
Symmetry ==
    UNION {Permutations(S) : S \in {IncidentIDs, SourceEvents, Bodies,
                                    Evidences, Principals, Clients}}
=============================================================================
