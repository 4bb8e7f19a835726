--------------------------- MODULE MCRequestPath ---------------------------
(* A small instance of RequestPath. *)
EXTENDS RequestPath

CONSTANTS c1, c2, k1, k2

Asks(kid, wellFormed, role, op) ==
    [kid |-> kid, wellFormed |-> wellFormed, op |-> op, claims |-> TRUE,
     principal |-> [roles |-> {role}, clearance |-> 1]]

\* An officer who assigns incidents, and a caller with tokens of the other key who
\* assigns as well, may not do so as an auditor, or sends no proper token.
Callers ==
    [c \in Clients |->
        IF c = c1 THEN {Asks(k1, TRUE, "nn-officer", "assign")}
        ELSE {Asks(k2, TRUE, "nn-officer", "assign"), Asks(k2, TRUE, "auditor", "assign"),
              Asks(k2, FALSE, "nn-officer", "read")}]
=============================================================================
