-------------------------- MODULE MCOutcomeLedger --------------------------
(* Small instances of OutcomeLedger. *)
EXTENDS OutcomeLedger

\* Classified outcomes; the zero quantity is refused by Validate.
Classified == [label : {"RESTRICTED", "SECRET"}, quantity : 0..2]
EveryLabel == [label : Classification, quantity : {1}]
=============================================================================
