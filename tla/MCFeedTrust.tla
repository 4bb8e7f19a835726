---------------------------- MODULE MCFeedTrust ----------------------------
(* Small instances of FeedTrust. *)
EXTENDS FeedTrust, TLC

\* A payload has an event_id of its own; two names may be used for one payload.
OwnEventID == [x \in Payloads |-> x]

\* No operation orders or singles out one of these values.
Symmetry == UNION {Permutations(S) : S \in {Sources, Keys, Operators, Payloads, Detections}}
=============================================================================
