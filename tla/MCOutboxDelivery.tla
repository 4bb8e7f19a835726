------------------------- MODULE MCOutboxDelivery -------------------------
(* Small instances of OutboxDelivery for TLC. *)
EXTENDS OutboxDelivery

CONSTANTS w1, w2

\* Two processes, each with its own identifier; w2's clock runs one tick ahead.
OwnIDs == [w \in Workers |-> w]
AheadSkew == [w \in Workers |-> IF w = w2 THEN 1 ELSE 0]
=============================================================================
